---- MODULE Spec2Model ----
(***************************************************************************)
(* Model of the in-memory entry store of slmcache                          *)
(* (internal/store/memory.go).  Every store method holds s.mu for its      *)
(* whole body (Lock/RLock followed by a deferred unlock), so each method   *)
(* is one atomic action.  time.Now().UTC() is the variable now, a wall     *)
(* clock that is read by every mutating method and that never steps back.  *)
(*                                                                         *)
(* Spec drives the store with several entries of plain content; SpecEntry  *)
(* drives it with fewer entries that carry metadata and caller-set         *)
(* timestamps.  Both use the same actions.                                 *)
(***************************************************************************)
EXTENDS Integers, Sequences, FiniteSets, TLC

\* ---------------------------------------------------------------- bounds
\* ids the store may hand out under Spec (caps the nextID counter)
MaxID == 2
\* ids the store may hand out under SpecEntry
MaxEntryID == 1
\* last instant of the wall clock
MaxTime == 2
\* ids the store may hand out under SpecFind
MaxFindID == 2
\* ids the store may hand out under SpecSearch
MaxSearchID == 3
\* ids the store may hand out under SpecLimit: more than the default limit
MaxLimitID == 11
\* ids the store may hand out under SpecAlias
MaxAliasID == 2
\* ids the store may hand out under SpecServer
MaxServerID == 1
\* ids the store may hand out under SpecExpiry
MaxExpiryID == 1
\* ids the store may hand out under SpecSweep
MaxSweepID == 3
\* ids the store may hand out under SpecJanitor
MaxJanitorID == 1
\* goroutines that call Close
MaxClosers == 2
\* ids the store may hand out under FairLive
MaxLiveID == 2
\* ids the store may hand out under SpecLock
MaxLockID == 1
\* ids the store may hand out under SpecCap
MaxCapID == 2
\* ids the store may hand out under SpecFilter
MaxFilterID == 2
\* ids the store may hand out under SpecEmbed
MaxEmbedID == 2
\* ids the store may hand out under SpecIDs
MaxSnapID == 3
\* ids the store may hand out under SpecDegenerate
MaxDegID == 2
\* ids the store may hand out under SpecRace
MaxRaceID == 1
\* ids the store may hand out under SpecSwallow
MaxSwallowID == 2
\* ids the store may hand out under SpecHits
MaxHitsID == 2
\* goroutines that call the store under SpecLock
MaxGoroutines == 2
\* s.entryTTL, the time-to-live of the server, in instants (New gives it a
\* positive value)
TTL == 1

\* ---------------------------------------------------------------- values
\* a Go map[string]interface{}: nil, or a map from some keys to values
EmptyMap == [k \in {} |-> 0]
NilMetadata == [isNil |-> TRUE, kv |-> EmptyMap]
MakeMap(f) == [isNil |-> FALSE, kv |-> f]

\* a metadata value is a number; a negative one is a reference to an object
\* (a nested map or slice) that lives outside the map that holds it
Refs == {1}
Ref(r) == 0 - r
IsRef(v) == v < 0
\* what the nested object holds: one number
Deref(h, v) == h[0 - v]

\* the zero time.Time (IsZero) is 0; real instants are 1..MaxTime
ZeroTime == 0

\* a *models.Entry: the nil pointer, or a pointer to a struct
NilEntry ==
    [isNil |-> TRUE, ID |-> 0, Prompt |-> "", Response |-> "",
     Metadata |-> NilMetadata, CreatedAt |-> ZeroTime, UpdatedAt |-> ZeroTime]

\* an entry as a caller passes it (a decoded JSON body leaves ID and
\* UpdatedAt zero)
EntryArg(prompt, response, metadata, createdAt) ==
    [isNil |-> FALSE, ID |-> 0, Prompt |-> prompt, Response |-> response,
     Metadata |-> metadata, CreatedAt |-> createdAt, UpdatedAt |-> ZeroTime]

\* the vector a caller passes with an entry: one per prompt, as the facade's
\* Embed(e.Prompt) gives
Embedding(e) ==
    IF e.Prompt = "p1" THEN <<1, 0>> ELSE IF e.Prompt = "p2" THEN <<0, 1>> ELSE <<>>

\* Spec, a store of several entries: what callers pass
PlainArgs ==
    { EntryArg("p1", "r1", NilMetadata, ZeroTime),
      EntryArg("p2", "r2", NilMetadata, ZeroTime) }
PlainPatch == { MakeMap([k \in {"b"} |-> 2]) }
PlainKeys == { <<>> }
PlainIDs == 1..(MaxID + 1)

\* SpecEntry, the life of single entries: what callers pass.  CreatedAt is
\* unset or names the last instant.
RichArgs ==
    { EntryArg("p1", "r1", m, c) :
        m \in { NilMetadata, MakeMap([k \in {"a", "b"} |-> 1]) },
        c \in { ZeroTime, MaxTime } }
RichPatch == { NilMetadata, MakeMap(EmptyMap), MakeMap([k \in {"b"} |-> 2]) }
RichKeys == { <<>>, <<"a">>, <<"b">>, <<"a", "a">>, <<"a", "b">> }
RichIDs == 1..(MaxEntryID + 1)

\* SpecFind, lookups by metadata: what callers pass.  A filter map is nil,
\* empty, or names keys with the strings their values must print as.
FindArgs ==
    { EntryArg("p1", "r1", m, ZeroTime) :
        m \in { NilMetadata,
                MakeMap([k \in {"a"} |-> 1]),
                MakeMap([k \in {"a"} |-> 2]),
                MakeMap([k \in {"a", "b"} |-> IF k = "a" THEN 1 ELSE 2]) } }
FindFilters ==
    { NilMetadata, MakeMap(EmptyMap),
      MakeMap([k \in {"a"} |-> "1"]),
      MakeMap([k \in {"b"} |-> "2"]),
      MakeMap([k \in {"a", "b"} |-> IF k = "a" THEN "1" ELSE "2"]),
      MakeMap([k \in {"a", "b"} |-> "2"]) }
FindKeys == { <<"a">> }
FindIDs == 1..(MaxFindID + 1)

\* SpecSearch, similarity search: what callers pass
SearchArgs == { EntryArg("p1", "r1", NilMetadata, ZeroTime) }
SearchVecs == { <<1, 0>>, <<0, 1>>, <<3, 4>> }
SearchQueries == { <<1, 0>>, <<3, 4>>, <<>> }
SearchLimits == 1..(MaxSearchID + 1)
SearchIDs == 1..MaxSearchID

\* SpecLimit, the result cap: what callers pass
LimitVecs == { <<1, 0>> }
LimitArgs == { -1, 0, 1, 10, MaxLimitID, MaxLimitID + 1 }

\* SpecAlias, a caller that keeps what it passed and what it got: metadata with
\* a plain value under "a" or an object nested under "n"
AliasArgs ==
    { EntryArg("p1", "r1", m, ZeroTime) :
        m \in { MakeMap([k \in {"a"} |-> 1]), MakeMap([k \in {"n"} |-> Ref(1)]) } }
AliasPatch == { MakeMap([k \in {"n"} |-> Ref(1)]) }
AliasFilters == { NilMetadata, MakeMap([k \in {"n"} |-> "[1]"]) }
AliasIDs == 1..MaxAliasID

\* SpecServer, the requests of clients: a body may carry created_at
ServerBodies ==
    { EntryArg("p1", "r1", NilMetadata, ZeroTime),
      EntryArg("p2", "r2", NilMetadata, TTL + 2) }
ServerIDs == 1..MaxServerID
ServerPatch == { MakeMap([k \in {"a"} |-> 1]) }
ServerFilters == { NilMetadata, MakeMap([k \in {"a"} |-> "1"]) }
ServerQueries == { "p1", "p" }

VARIABLES
    entries,   \* s.entries: id -> stored entry
    vectors,   \* s.vectors
    ids,       \* s.ids
    nextID,    \* s.nextID
    now,       \* the wall clock read by time.Now()
    ret,       \* the last call: method, arguments and what it returned
    created,   \* ids returned by the successful creates, in order
    deleted,   \* ids for which DeleteEntry has returned nil
    lastVec,   \* id -> the vector the last successful create or update passed
    heap,      \* the objects nested in metadata values, by reference
    req,       \* the HTTP request a handler of the server is working on
    resp,      \* the HTTP response the server has written in the last step
    sweep,     \* the janitor: the ids and the cutoff of the purge it is in
    srv,       \* the server: its configuration, its janitor and its closers
    before,    \* s.ids and s.entries as they were when the purge began
    mu,        \* s.mu: the goroutine that holds it for writing, those for reading
    calls,     \* goroutine -> the store method it is in, its position and locals
    lin,       \* the table as the calls made so far give it, one call at a time
    ollama     \* a call of ensureOllamaModel and the Ollama server it talks to

storeVars == <<entries, vectors, ids, nextID>>
vars ==
    <<entries, vectors, ids, nextID, now, ret, created, deleted,
      lastVec, heap, req, resp, sweep, srv, before, mu, calls, lin, ollama>>
\* what belongs to the life of a server, and to the goroutines inside the
\* store
lifeVars == <<srv, before, mu, calls, lin>>

\* ret of a call: unused fields keep their defaults
Call(op, id, err) ==
    [op |-> op, id |-> id, err |-> err, e |-> NilEntry, vec |-> <<>>,
     md |-> NilMetadata, replace |-> FALSE, keys |-> <<>>, ids |-> <<>>,
     filters |-> NilMetadata, found |-> <<>>, limit |-> 0, scores |-> <<>>,
     search |-> FALSE, list |-> FALSE, n |-> 0]

\* no request in flight: handler and pc say which handler is at which store
\* call, the other fields are its locals; hits keeps the ids and scores that
\* SearchByVector returned to handleSearch
NoRequest ==
    [handler |-> "", pc |-> "", id |-> 0, body |-> NilEntry, md |-> NilMetadata,
     replace |-> FALSE, keys |-> <<>>, filters |-> NilMetadata, q |-> "",
     limit |-> 0, e |-> NilEntry, todo |-> <<>>, out |-> <<>>, fallback |-> <<>>,
     hits |-> <<>>]
\* no response written in this step: a response is a status and the entries
\* its body shows
NoResponse == [handler |-> "", id |-> 0, status |-> 0, body |-> <<>>]
\* no purge in progress: a purge holds its cutoff, the ids still to visit and
\* its count "removed"; gone is the number of entries it has taken from the
\* store
NoSweep ==
    [on |-> FALSE, pc |-> "", todo |-> <<>>, cutoff |-> 0, removed |-> 0, gone |-> 0]

\* ---------------------------------------------------- configuration
\* time.ParseDuration on the values SLC_ENTRY_TTL is given; an instant of the
\* clock is twelve hours
ParseDuration(v) ==
    CASE v = "0" -> [ok |-> TRUE, d |-> 0]
      [] v = "-12h" -> [ok |-> TRUE, d |-> -1]
      [] v = "12h" -> [ok |-> TRUE, d |-> 1]
      [] v = "24h" -> [ok |-> TRUE, d |-> 2]
      [] OTHER -> [ok |-> FALSE, d |-> 0]
\* 24*time.Hour, the default of SLC_ENTRY_TTL
DefaultTTL == 2
\* durationFromEnv(key, def) when the environment gives key the value v ("" is
\* unset or blank)
durationFromEnv(v, def) ==
    IF v # "" /\ ParseDuration(v).ok /\ ParseDuration(v).d > 0
    THEN ParseDuration(v).d
    ELSE def
\* the goroutines that call s.Close()
Closers == 1..MaxClosers
\* server.New under SLC_ENTRY_TTL = v, as it reaches s.startJanitor(): no
\* janitor goroutine and no ticker yet, janitorStop open, closeOnce unused
New(v) ==
    [env |-> v, entryTTL |-> durationFromEnv(v, DefaultTTL),
     phase |-> "startup",     \* startup, spawn, serving: how far New has come
     janitor |-> "none",      \* the goroutine: none, select, sweeping, exited
     tick |-> FALSE,          \* a tick waits in ticker.C
     stop |-> 0,              \* how often close(s.janitorStop) has run
     wg |-> 0,                \* the counter of s.janitorWG
     once |-> [done |-> FALSE, m |-> 0],   \* s.closeOnce: done, holder of its mutex
     closers |-> [c \in Closers |-> "idle"],
     closed |-> FALSE,        \* some call of Close has returned
     slm |-> "mock"]          \* s.slm: the mock provider, whose Embed never fails
\* a server that New has returned, with its janitor in the loop; the ticks of
\* the ticker are not followed
Running(v) ==
    [New(v) EXCEPT !.phase = "serving", !.janitor = "select", !.wg = 1]
\* the values SLC_ENTRY_TTL is given under SpecConfig
EnvTTLs == {"", "0", "-12h", "12h", "24h", "soon"}
\* the goroutines that call the store
Goroutines == 1..MaxGoroutines
\* what a store method returns
NoResult == [err |-> "", id |-> 0, e |-> NilEntry, ids |-> <<>>]
\* a goroutine outside the store
NoCall ==
    [op |-> "", pc |-> "idle", id |-> 0, e |-> NilEntry, md |-> NilMetadata,
     keys |-> <<>>, cur |-> NilEntry, newIDs |-> <<>>, newVecs |-> <<>>,
     out |-> NoResult, want |-> NoResult]
\* s.mu unlocked
Unlocked == [w |-> 0, r |-> {}]
\* nothing kept of a purge
NoBefore == [ids |-> <<>>, entries |-> <<>>, now |-> 0]

\* no call of ensureOllamaModel yet: the version and the tags of the server,
\* the endpoints that fail, the model asked for, the position of the call,
\* the requests it has sent and the error it returned
NoOllama ==
    [version |-> "", tags |-> {}, down |-> {}, model |-> "", pc |-> "idle",
     log |-> <<>>, err |-> ""]

\* store.New; a server under SLC_ENTRY_TTL=12h that has answered nothing yet
Init ==
    /\ entries = [i \in {} |-> NilEntry]
    /\ vectors = <<>>
    /\ ids = <<>>
    /\ nextID = 1
    /\ now = 1
    /\ ret = Call("New", 0, "")
    /\ created = <<>>
    /\ deleted = {}
    /\ lastVec = [i \in {} |-> <<>>]
    /\ heap = [r \in Refs |-> 1]
    /\ req = NoRequest
    /\ resp = NoResponse
    /\ sweep = NoSweep
    /\ srv = Running("12h")
    /\ before = NoBefore
    /\ mu = Unlocked
    /\ calls = [g \in Goroutines |-> NoCall]
    /\ lin = [i \in {} |-> NilEntry]
    /\ ollama = NoOllama

\* ---------------------------------------------------------------- helpers
cloneMetadata(src) ==
    IF src.isNil THEN NilMetadata
    ELSE MakeMap([k \in DOMAIN src.kv |-> src.kv[k]])

cloneEntry(e) ==
    IF e.isNil THEN NilEntry
    ELSE [isNil |-> FALSE, ID |-> e.ID, Prompt |-> e.Prompt,
          Response |-> e.Response,
          Metadata |-> IF ~e.Metadata.isNil THEN cloneMetadata(e.Metadata)
                       ELSE e.Metadata,
          CreatedAt |-> e.CreatedAt, UpdatedAt |-> e.UpdatedAt]

\* m[k] = v on a Go map
MapPut(f, k, v) == [x \in DOMAIN f \cup {k} |-> IF x = k THEN v ELSE f[x]]
\* delete(m, k) on a Go map
MapDelete(f, k) == [x \in DOMAIN f \ {k} |-> f[x]]

Range(s) == { s[i] : i \in 1..Len(s) }

\* index of the first element of s.ids equal to id, 0 when there is none
\* (the loop "for i, sid := range s.ids { if sid == id {...; return} }")
IndexOf(id) ==
    IF \E i \in 1..Len(ids) : ids[i] = id
    THEN CHOOSE i \in 1..Len(ids) :
            /\ ids[i] = id
            /\ \A j \in 1..(i - 1) : ids[j] # id
    ELSE 0

\* ------------------------------------------------ CreateEntryWithVector
\* s.nextID++ after id := s.nextID
AllocReuse(n) == Len(ids) + 2
AllocNextID(n) == n + 1

\* the struct CreateEntryWithVector stores under id at instant t
createdEntryStamped(e, id, t) ==
    cloneEntry([e EXCEPT !.CreatedAt = t, !.UpdatedAt = t, !.ID = id])
createdEntry(e, id, t) ==
    cloneEntry([e EXCEPT !.CreatedAt = IF @ = ZeroTime THEN t ELSE @,
                         !.UpdatedAt = t,
                         !.ID = id])

\* lines 55-68: allocate the id, stamp and store the entry and its vector
CreateWrite(e, vec) ==
    /\ LET id == nextID IN
         /\ nextID' = AllocNextID(nextID)
         /\ entries' = MapPut(entries, id, createdEntry(e, id, now))
         /\ ids' = Append(ids, id)
         /\ vectors' = Append(vectors, vec)
         /\ ret' = [Call("CreateEntryWithVector", id, "")
                       EXCEPT !.e = e, !.vec = vec]
         /\ created' = Append(created, id)
    /\ UNCHANGED <<now, deleted>>

\* a variant that takes the id before it looks at the entry
CreateEntryWithVectorEarlyAlloc(e, vec) ==
    IF e.isNil
    THEN /\ nextID' = AllocNextID(nextID)
         /\ ret' = [Call("CreateEntryWithVector", 0, "nil entry") EXCEPT !.e = e]
         /\ UNCHANGED <<entries, vectors, ids, now, created, deleted>>
    ELSE CreateWrite(e, vec)
CreateEntryWithVector(e, vec) ==
    IF e.isNil
    THEN /\ ret' = [Call("CreateEntryWithVector", 0, "nil entry") EXCEPT !.e = e]
         /\ UNCHANGED <<storeVars, now, created, deleted>>
    ELSE CreateWrite(e, vec)

\* ------------------------------------------------ UpdateEntryWithVector
\* the struct UpdateEntryWithVector stores over current at instant t
updatedEntryTrusting(current, e, id, t) ==
    cloneEntry([e EXCEPT !.ID = id,
                         !.CreatedAt = IF @ = ZeroTime THEN current.CreatedAt ELSE @,
                         !.UpdatedAt = t])
updatedEntry(current, e, id, t) ==
    cloneEntry([e EXCEPT !.ID = id,
                         !.CreatedAt = IF current.CreatedAt # ZeroTime
                                       THEN current.CreatedAt
                                       ELSE IF @ = ZeroTime THEN t ELSE @,
                         !.UpdatedAt = t])

\* lines 78-99: stamp and store the entry, replace the vector in place or
\* append it
UpdateWrite(id, current, e, vec) ==
    /\ entries' = MapPut(entries, id, updatedEntry(current, e, id, now))
    /\ IF IndexOf(id) # 0
       THEN /\ vectors' = [vectors EXCEPT ![IndexOf(id)] = vec]
            /\ ids' = ids
       ELSE /\ ids' = Append(ids, id)
            /\ vectors' = Append(vectors, vec)
    /\ ret' = [Call("UpdateEntryWithVector", id, "")
                   EXCEPT !.e = e, !.vec = vec]
    /\ UNCHANGED <<nextID, now, created, deleted>>

\* a variant without the "not found" return: an update of an absent id inserts
UpdateEntryWithVectorUpsert(id, e, vec) ==
    IF e.isNil
    THEN /\ ret' = Call("UpdateEntryWithVector", id, "panic")
         /\ UNCHANGED <<storeVars, now, created, deleted>>
    ELSE UpdateWrite(id, IF id \in DOMAIN entries THEN entries[id] ELSE NilEntry,
                     e, vec)
UpdateEntryWithVector(id, e, vec) ==
    IF id \notin DOMAIN entries
    THEN /\ ret' = Call("UpdateEntryWithVector", id, "not found")
         /\ UNCHANGED <<storeVars, now, created, deleted>>
    ELSE IF e.isNil
    \* e.ID = id dereferences the nil pointer before anything is written
    THEN /\ ret' = Call("UpdateEntryWithVector", id, "panic")
         /\ UNCHANGED <<storeVars, now, created, deleted>>
    ELSE UpdateWrite(id, entries[id], e, vec)

\* ------------------------------------------------ GetEntry, AllIDs
GetEntry(id) ==
    /\ ret' = IF id \notin DOMAIN entries
              THEN Call("GetEntry", id, "not found")
              ELSE [Call("GetEntry", id, "") EXCEPT !.e = cloneEntry(entries[id])]
    /\ UNCHANGED <<storeVars, now, created, deleted>>

\* a variant that collects the ids from the table, in an order of its own
AllIDsFromTable ==
    /\ ret' = [Call("AllIDs", 0, "")
                  EXCEPT !.ids = [i \in 1..Len(ids) |-> ids[Len(ids) + 1 - i]]]
    /\ UNCHANGED <<storeVars, now, created, deleted>>
\* "out := make([]int64, len(s.ids)); copy(out, s.ids)"
AllIDs ==
    /\ ret' = [Call("AllIDs", 0, "") EXCEPT !.ids = [i \in 1..Len(ids) |-> ids[i]]]
    /\ UNCHANGED <<storeVars, now, created, deleted>>

\* ------------------------------------------------ DeleteEntry
\* lines 186-196: rebuild s.ids and s.vectors without id, keeping order
RECURSIVE deleteLoopKeepVector(_, _, _, _)
deleteLoopKeepVector(i, id, newIDs, newVecs) ==
    IF i > Len(ids) THEN [ids |-> newIDs, vectors |-> newVecs]
    ELSE IF ids[i] = id
         THEN deleteLoopKeepVector(i + 1, id, newIDs, Append(newVecs, vectors[i]))
         ELSE deleteLoopKeepVector(i + 1, id, Append(newIDs, ids[i]),
                                   Append(newVecs, vectors[i]))
RECURSIVE deleteLoop(_, _, _, _)
deleteLoop(i, id, newIDs, newVecs) ==
    IF i > Len(ids) THEN [ids |-> newIDs, vectors |-> newVecs]
    ELSE IF ids[i] = id
         THEN deleteLoop(i + 1, id, newIDs, newVecs)
         ELSE deleteLoop(i + 1, id, Append(newIDs, ids[i]),
                         Append(newVecs, vectors[i]))

\* delete(s.entries, id)
entriesKept(id) == entries
entriesWithout(id) == MapDelete(entries, id)

DeleteEntry(id) ==
    IF id \notin DOMAIN entries
    THEN /\ ret' = Call("DeleteEntry", id, "not found")
         /\ UNCHANGED <<storeVars, now, created, deleted>>
    ELSE /\ entries' = entriesWithout(id)
         /\ ids' = deleteLoop(1, id, <<>>, <<>>).ids
         /\ vectors' = deleteLoop(1, id, <<>>, <<>>).vectors
         /\ ret' = Call("DeleteEntry", id, "")
         /\ deleted' = deleted \cup {id}
         /\ UNCHANGED <<nextID, now, created>>

\* ------------------------------------------------ UpdateEntryMetadata
\* "for k, v := range metadata { updated.Metadata[k] = v }" over the keys ks
RECURSIVE mergeLoopKeepOld(_, _, _)
mergeLoopKeepOld(dst, src, ks) ==
    IF ks = {} THEN dst
    ELSE LET k == CHOOSE x \in ks : TRUE IN
         mergeLoopKeepOld(IF k \in DOMAIN dst THEN dst ELSE MapPut(dst, k, src[k]),
                          src, ks \ {k})
RECURSIVE mergeLoop(_, _, _)
mergeLoop(dst, src, ks) ==
    IF ks = {} THEN dst
    ELSE LET k == CHOOSE x \in ks : TRUE IN
         mergeLoop(MapPut(dst, k, src[k]), src, ks \ {k})

\* lines 208-221: the metadata of the updated copy
patchedMetadata(cur, metadata, replace) ==
    IF replace
    THEN IF metadata.isNil THEN NilMetadata ELSE cloneMetadata(metadata)
    ELSE MakeMap(mergeLoop(IF cur.isNil THEN EmptyMap ELSE cur.kv,
                           metadata.kv, DOMAIN metadata.kv))

\* a variant that rebuilds the entry field by field and leaves Response out
UpdateEntryMetadataRebuild(id, metadata, replace) ==
    IF id \in DOMAIN entries
    THEN /\ entries' = MapPut(entries, id,
                [NilEntry EXCEPT
                    !.isNil = FALSE, !.ID = id, !.Prompt = entries[id].Prompt,
                    !.Metadata = patchedMetadata(entries[id].Metadata, metadata, replace),
                    !.CreatedAt = entries[id].CreatedAt, !.UpdatedAt = now])
         /\ ret' = [Call("UpdateEntryMetadata", id, "")
                        EXCEPT !.md = metadata, !.replace = replace]
         /\ UNCHANGED <<vectors, ids, nextID, now, created, deleted>>
    ELSE /\ ret' = Call("UpdateEntryMetadata", id, "not found")
         /\ UNCHANGED <<storeVars, now, created, deleted>>
UpdateEntryMetadata(id, metadata, replace) ==
    IF id \notin DOMAIN entries
    THEN /\ ret' = Call("UpdateEntryMetadata", id, "not found")
         /\ UNCHANGED <<storeVars, now, created, deleted>>
    ELSE LET updated == cloneEntry(entries[id]) IN
         /\ entries' = MapPut(entries, id,
                [updated EXCEPT
                    !.Metadata = patchedMetadata(updated.Metadata, metadata, replace),
                    !.UpdatedAt = now])
         /\ ret' = [Call("UpdateEntryMetadata", id, "")
                        EXCEPT !.md = metadata, !.replace = replace]
         /\ UNCHANGED <<vectors, ids, nextID, now, created, deleted>>

\* ------------------------------------------------ DeleteEntryMetadata
\* "for _, key := range keys { delete(updated.Metadata, key) }" from index i
RECURSIVE deleteKeysFirstOnly(_, _, _)
deleteKeysFirstOnly(f, keys, i) ==
    IF i > Len(keys) THEN f ELSE MapDelete(f, keys[i])
RECURSIVE deleteKeys(_, _, _)
deleteKeys(f, keys, i) ==
    IF i > Len(keys) THEN f
    ELSE deleteKeys(MapDelete(f, keys[i]), keys, i + 1)

\* lines 235-241: the metadata of the updated copy
strippedMetadata(cur, keys) ==
    IF Len(keys) = 0 THEN NilMetadata
    ELSE IF ~cur.isNil THEN MakeMap(deleteKeys(cur.kv, keys, 1))
    ELSE cur

DeleteEntryMetadata(id, keys) ==
    IF id \notin DOMAIN entries
    THEN /\ ret' = Call("DeleteEntryMetadata", id, "not found")
         /\ UNCHANGED <<storeVars, now, created, deleted>>
    ELSE LET updated == cloneEntry(entries[id]) IN
         /\ entries' = MapPut(entries, id,
                [updated EXCEPT
                    !.Metadata = strippedMetadata(updated.Metadata, keys),
                    !.UpdatedAt = now])
         /\ ret' = [Call("DeleteEntryMetadata", id, "") EXCEPT !.keys = keys]
         /\ UNCHANGED <<vectors, ids, nextID, now, created, deleted>>

\* ------------------------------------------------ SearchByVector
\* a float64 score is kept in hundredths; the vectors callers pass have whole
\* components and whole norms, so that every score is exact
Hundredths == 100
\* the limit that replaces a non-positive one
DefaultLimit == 10

\* math.Sqrt on the sums of squares that occur
Sqrt(n) == CHOOSE r \in 0..n : r * r <= n /\ (r + 1) * (r + 1) > n

\* the loop "for i := range a" of cosine, from index i
RECURSIVE cosineLoop(_, _, _, _)
cosineLoop(a, b, i, acc) ==
    IF i > Len(a) THEN acc
    ELSE cosineLoop(a, b, i + 1,
                    [dot |-> acc.dot + a[i] * b[i],
                     da |-> acc.da + a[i] * a[i],
                     db |-> acc.db + b[i] * b[i]])

\* a variant that compares the components both vectors have
cosineTruncated(a, b) ==
    LET n == IF Len(a) < Len(b) THEN Len(a) ELSE Len(b)
        s == cosineLoop(SubSeq(a, 1, n), SubSeq(b, 1, n), 1,
                        [dot |-> 0, da |-> 0, db |-> 0])
    IN IF s.da = 0 \/ s.db = 0 THEN 0
       ELSE (s.dot * Hundredths) \div (Sqrt(s.da) * Sqrt(s.db))
cosine(a, b) ==
    IF Len(a) = 0 \/ Len(b) = 0 \/ Len(a) # Len(b) THEN 0
    ELSE LET s == cosineLoop(a, b, 1, [dot |-> 0, da |-> 0, db |-> 0]) IN
         IF s.da = 0 \/ s.db = 0 THEN 0
         ELSE (s.dot * Hundredths) \div (Sqrt(s.da) * Sqrt(s.db))

\* "if limit <= 0 { limit = 10 }"
effectiveLimitNone(limit) == IF limit <= 0 THEN Len(vectors) ELSE limit
effectiveLimit(limit) == IF limit <= 0 THEN DefaultLimit ELSE limit

\* "for j := 1; j < len(sel); j++": the first index of the lowest score in sel
RECURSIVE minLoop(_, _, _)
minLoop(sel, j, minIdx) ==
    IF j > Len(sel) THEN minIdx
    ELSE minLoop(sel, j + 1, IF sel[j].score < sel[minIdx].score THEN j ELSE minIdx)

\* a variant that keeps the first limit pairs and never replaces one
RECURSIVE selectLoopFirst(_, _, _, _)
selectLoopFirst(i, scores, limit, sel) ==
    IF i > Len(scores) THEN sel
    ELSE IF Len(sel) < limit
         THEN selectLoopFirst(i + 1, scores, limit,
                              Append(sel, [idx |-> i, score |-> scores[i]]))
         ELSE selectLoopFirst(i + 1, scores, limit, sel)
\* "for i, sc := range scores": fill sel up to limit, then replace its lowest
\* pair by each strictly higher score
RECURSIVE selectLoop(_, _, _, _)
selectLoop(i, scores, limit, sel) ==
    IF i > Len(scores) THEN sel
    ELSE IF Len(sel) < limit
         THEN selectLoop(i + 1, scores, limit,
                         Append(sel, [idx |-> i, score |-> scores[i]]))
         ELSE LET minIdx == minLoop(sel, 2, 1) IN
              selectLoop(i + 1, scores, limit,
                         IF scores[i] > sel[minIdx].score
                         THEN [sel EXCEPT ![minIdx] = [idx |-> i, score |-> scores[i]]]
                         ELSE sel)

\* a variant that names the ids by their place in the result
selectedIDsByPlace(sel) == [p \in 1..Len(sel) |-> ids[p]]
\* "ids = append(ids, s.ids[p.idx])"
selectedIDs(sel) == [p \in 1..Len(sel) |-> ids[sel[p].idx]]

SearchByVector(vec, limit) ==
    LET scores == [i \in 1..Len(vectors) |-> cosine(vec, vectors[i])]
        sel == selectLoop(1, scores, effectiveLimit(limit), <<>>)
    IN /\ ret' = [Call("SearchByVector", 0, "")
                      EXCEPT !.vec = vec, !.limit = limit,
                             !.ids = selectedIDs(sel),
                             !.scores = [p \in 1..Len(sel) |-> sel[p].score]]
       /\ UNCHANGED <<storeVars, now, created, deleted>>

\* ------------------------------------------------ FindEntriesByMetadata
\* fmt.Sprint of a metadata value: a number in decimal, a nested object with
\* what it holds
Sprint(h, v) ==
    IF IsRef(v) THEN "[" \o ToString(Deref(h, v)) \o "]" ELSE ToString(v)

\* a variant that accepts an entry as soon as one filter is satisfied
matchesMetadataAny(entry, filters) ==
    IF Cardinality(DOMAIN filters.kv) = 0 THEN TRUE
    ELSE IF entry.Metadata.isNil THEN FALSE
    ELSE \E k \in DOMAIN filters.kv :
            /\ k \in DOMAIN entry.Metadata.kv
            /\ Sprint(heap, entry.Metadata.kv[k]) = filters.kv[k]
\* the loop returns false at the first filter that is absent or differs
matchesMetadata(entry, filters) ==
    IF Cardinality(DOMAIN filters.kv) = 0 THEN TRUE
    ELSE IF entry.Metadata.isNil THEN FALSE
    ELSE \A k \in DOMAIN filters.kv :
            /\ k \in DOMAIN entry.Metadata.kv
            /\ Sprint(heap, entry.Metadata.kv[k]) = filters.kv[k]

\* "for _, id := range s.ids" from index i, out so far
RECURSIVE findLoop(_, _, _)
findLoop(i, filters, out) ==
    IF i > Len(ids) THEN out
    ELSE IF ids[i] \notin DOMAIN entries THEN findLoop(i + 1, filters, out)
    ELSE IF matchesMetadata(entries[ids[i]], filters)
         THEN findLoop(i + 1, filters, Append(out, cloneEntry(entries[ids[i]])))
         ELSE findLoop(i + 1, filters, out)

FindEntriesByMetadata(filters) ==
    /\ ret' = [Call("FindEntriesByMetadata", 0, "")
                   EXCEPT !.filters = filters,
                          !.found = findLoop(1, filters, <<>>)]
    /\ UNCHANGED <<storeVars, now, created, deleted>>

\* ------------------------------------------------ a caller's own writes
\* the references among the values of a metadata map
RefsIn(md) == { 0 - md.kv[k] : k \in { x \in DOMAIN md.kv : IsRef(md.kv[x]) } }

\* the nested objects a caller can reach through a value it holds after a call
\* that handed it an entry
ReachReturned ==
    IF ret.op = "GetEntry" THEN RefsIn(ret.e.Metadata)
    ELSE IF ret.op = "FindEntriesByMetadata"
    THEN UNION { RefsIn(ret.found[i].Metadata) : i \in 1..Len(ret.found) }
    ELSE {}
\* ... and through a value it has passed to a call
ReachPassed ==
    IF ret.op \in {"CreateEntryWithVector", "UpdateEntryWithVector"}
    THEN RefsIn(ret.e.Metadata)
    ELSE IF ret.op = "UpdateEntryMetadata" THEN RefsIn(ret.md)
    ELSE {}

\* after the call has returned, the caller writes into the object r nested in
\* the metadata it holds; the store is not called
MutateNested(r, how) ==
    /\ ret.err = ""
    /\ \/ how = "MutateReturned" /\ r \in ReachReturned
       \/ how = "MutatePassed" /\ r \in ReachPassed
    /\ heap' = [heap EXCEPT ![r] = 3 - @]
    /\ ret' = Call(how, r, "")
    /\ UNCHANGED <<storeVars, now, created, deleted>>

\* ------------------------------------------------ s.mu (memory.go)
\* the methods statement by statement, each between the Lock or RLock at its
\* top and the deferred unlock
\* s.mu.Lock() may return: no goroutine holds s.mu
canLockFree == TRUE
canLock == mu.w = 0 /\ mu.r = {}
\* s.mu.RLock() may return: no goroutine holds s.mu for writing
canRLockFree == TRUE
canRLock == mu.w = 0

ReadOps == {"GetEntry", "AllIDs", "SearchByVector", "FindEntriesByMetadata"}
PointWriteOps ==
    {"UpdateEntryWithVector", "UpdateEntryMetadata", "DeleteEntryMetadata",
     "DeleteEntry"}
NotFound == [NoResult EXCEPT !.err = "not found"]

\* the entry a point write stores over current
writtenEntry(c, current) ==
    CASE c.op = "UpdateEntryWithVector" -> updatedEntry(current, c.e, c.id, now)
      [] c.op = "UpdateEntryMetadata" ->
            [cloneEntry(current) EXCEPT
                !.Metadata = patchedMetadata(current.Metadata, c.md, FALSE),
                !.UpdatedAt = now]
      [] c.op = "DeleteEntryMetadata" ->
            [cloneEntry(current) EXCEPT
                !.Metadata = strippedMetadata(current.Metadata, c.keys),
                !.UpdatedAt = now]
      [] OTHER -> current

\* the call c on the table m when no other call overlaps it: the table it
\* leaves and what it returns (n is the id a create takes)
SeqApply(m, c, n) ==
    CASE c.op = "CreateEntryWithVector" ->
            [m |-> MapPut(m, n, createdEntry(c.e, n, now)),
             res |-> [NoResult EXCEPT !.id = n]]
      [] c.op = "GetEntry" ->
            [m |-> m,
             res |-> IF c.id \in DOMAIN m
                     THEN [NoResult EXCEPT !.e = cloneEntry(m[c.id])]
                     ELSE NotFound]
      [] c.op = "DeleteEntry" ->
            IF c.id \in DOMAIN m
            THEN [m |-> MapDelete(m, c.id), res |-> NoResult]
            ELSE [m |-> m, res |-> NotFound]
      [] c.op \in PointWriteOps \ {"DeleteEntry"} ->
            IF c.id \in DOMAIN m
            THEN [m |-> MapPut(m, c.id, writtenEntry(c, m[c.id])), res |-> NoResult]
            ELSE [m |-> m, res |-> NotFound]
      [] OTHER -> [m |-> m, res |-> NoResult]

\* the store and the locals of call c as one statement leaves them
Same(c) ==
    [entries |-> entries, ids |-> ids, vectors |-> vectors, nextID |-> nextID,
     c |-> c]
Returns(c, out) == [Same(c) EXCEPT !.c = [c EXCEPT !.out = out, !.pc = "unlock"]]

\* CreateEntryWithVector, lines 55-68
createSteps(c) ==
    CASE c.pc = "first" ->
            [Same(c) EXCEPT !.nextID = AllocNextID(nextID),
                            !.c = [c EXCEPT !.id = nextID, !.pc = "put"]]
      [] c.pc = "put" ->
            [Same(c) EXCEPT !.entries = MapPut(entries, c.id, createdEntry(c.e, c.id, now)),
                            !.c = [c EXCEPT !.pc = "ids"]]
      [] c.pc = "ids" ->
            [Same(c) EXCEPT !.ids = Append(ids, c.id), !.c = [c EXCEPT !.pc = "vecs"]]
      [] OTHER ->
            [Returns(c, [NoResult EXCEPT !.id = c.id])
                EXCEPT !.vectors = Append(vectors, Embedding(c.e))]

\* UpdateEntryWithVector, lines 74-99
updateSteps(c) ==
    CASE c.pc = "first" ->
            IF c.id \notin DOMAIN entries THEN Returns(c, NotFound)
            ELSE [Same(c) EXCEPT !.c = [c EXCEPT !.cur = writtenEntry(c, entries[c.id]),
                                                 !.pc = "put"]]
      [] c.pc = "put" ->
            [Same(c) EXCEPT !.entries = MapPut(entries, c.id, c.cur),
                            !.c = [c EXCEPT !.pc = "vec"]]
      [] OTHER ->
            IF IndexOf(c.id) # 0
            THEN [Returns(c, NoResult)
                    EXCEPT !.vectors = [vectors EXCEPT ![IndexOf(c.id)] = Embedding(c.e)]]
            ELSE [Returns(c, NoResult)
                    EXCEPT !.ids = Append(ids, c.id),
                           !.vectors = Append(vectors, Embedding(c.e))]

\* UpdateEntryMetadata and DeleteEntryMetadata, lines 203-224 and 230-244
metadataSteps(c) ==
    CASE c.pc = "first" ->
            IF c.id \notin DOMAIN entries THEN Returns(c, NotFound)
            ELSE [Same(c) EXCEPT !.c = [c EXCEPT !.cur = writtenEntry(c, entries[c.id]),
                                                 !.pc = "put"]]
      [] OTHER ->
            [Returns(c, NoResult) EXCEPT !.entries = MapPut(entries, c.id, c.cur)]

\* DeleteEntry, lines 181-197
deleteSteps(c) ==
    CASE c.pc = "first" ->
            IF c.id \notin DOMAIN entries THEN Returns(c, NotFound)
            ELSE [Same(c) EXCEPT !.c = [c EXCEPT !.pc = "del"]]
      [] c.pc = "del" ->
            [Same(c) EXCEPT !.entries = entriesWithout(c.id),
                            !.c = [c EXCEPT !.pc = "loop"]]
      [] c.pc = "loop" ->
            [Same(c) EXCEPT
                !.c = [c EXCEPT !.newIDs = deleteLoop(1, c.id, <<>>, <<>>).ids,
                                !.newVecs = deleteLoop(1, c.id, <<>>, <<>>).vectors,
                                !.pc = "ids"]]
      [] c.pc = "ids" ->
            [Same(c) EXCEPT !.ids = c.newIDs, !.c = [c EXCEPT !.pc = "vecs"]]
      [] OTHER ->
            [Returns(c, NoResult) EXCEPT !.vectors = c.newVecs]

\* the reads: GetEntry, AllIDs, SearchByVector with a limit no smaller than
\* the store (s.ids[p.idx] for each vector, a panic when there is no such
\* id), FindEntriesByMetadata without filters
InTable(id) == id \in DOMAIN entries
readSteps(c) ==
    CASE c.op = "GetEntry" ->
            IF c.id \in DOMAIN entries
            THEN Returns(c, [NoResult EXCEPT !.e = cloneEntry(entries[c.id])])
            ELSE Returns(c, NotFound)
      [] c.op = "AllIDs" -> Returns(c, [NoResult EXCEPT !.ids = ids])
      [] c.op = "SearchByVector" ->
            IF Len(vectors) > Len(ids)
            THEN Returns(c, [NoResult EXCEPT !.err = "panic"])
            ELSE Returns(c, [NoResult EXCEPT !.ids = SubSeq(ids, 1, Len(vectors))])
      [] OTHER -> Returns(c, [NoResult EXCEPT !.ids = SelectSeq(ids, InTable)])

\* the statement call c is at
statement(c) ==
    CASE c.op = "CreateEntryWithVector" -> createSteps(c)
      [] c.op = "UpdateEntryWithVector" -> updateSteps(c)
      [] c.op \in {"UpdateEntryMetadata", "DeleteEntryMetadata"} -> metadataSteps(c)
      [] c.op = "DeleteEntry" -> deleteSteps(c)
      [] OTHER -> readSteps(c)

\* what the goroutines leave alone
Within ==
    /\ ret' = Call("-", 0, "")
    /\ UNCHANGED <<now, created, deleted>>

\* goroutine g calls a store method
Enter(g, c) ==
    /\ calls[g].pc = "idle"
    /\ calls' = [calls EXCEPT ![g] = c]
    /\ Within
    /\ UNCHANGED <<storeVars, mu, lin>>

\* s.mu.Lock() or s.mu.RLock() returns to goroutine g
Lock(g) ==
    /\ \/ /\ calls[g].pc = "lock"
          /\ canLock
          /\ mu' = [mu EXCEPT !.w = g]
       \/ /\ calls[g].pc = "rlock"
          /\ canRLock
          /\ mu' = [mu EXCEPT !.r = @ \cup {g}]
    /\ calls' = [calls EXCEPT ![g].pc = "first"]
    /\ Within
    /\ UNCHANGED <<storeVars, lin>>

\* goroutine g runs one statement of its method; at the first one the call
\* takes its place in the order of the calls
Statement(g) ==
    LET c == calls[g]
        s == statement(c)
        seq == SeqApply(lin, c, nextID)
    IN /\ c.pc \notin {"idle", "lock", "rlock", "unlock"}
       /\ entries' = s.entries
       /\ ids' = s.ids
       /\ vectors' = s.vectors
       /\ nextID' = s.nextID
       /\ calls' = [calls EXCEPT ![g] =
                        IF c.pc = "first"
                        THEN [s.c EXCEPT !.want = IF c.op \in ReadOps \ {"GetEntry"}
                                                  THEN s.c.out ELSE seq.res]
                        ELSE s.c]
       /\ lin' = IF c.pc = "first" THEN seq.m ELSE lin
       /\ Within
       /\ mu' = mu

\* the deferred s.mu.Unlock() or s.mu.RUnlock(), and the return
Unlock(g) ==
    /\ calls[g].pc = "unlock"
    /\ mu' = IF calls[g].op \in ReadOps
              THEN [mu EXCEPT !.r = @ \ {g}]
              ELSE [mu EXCEPT !.w = 0]
    /\ calls' = [calls EXCEPT ![g] = NoCall]
    /\ Within
    /\ UNCHANGED <<storeVars, lin>>

\* ------------------------------------------------ expiry (server.go)
\* the last instant of the clock of a server: an entry of the first instant
\* has expired by then
LastInstant == srv.entryTTL + 2

entryExpiredAtUpdatedOnly(e, cutoff) ==
    IF e.isNil THEN FALSE
    ELSE IF e.UpdatedAt = ZeroTime THEN FALSE
    ELSE e.UpdatedAt < cutoff
entryExpiredAt(e, cutoff) ==
    IF e.isNil THEN FALSE
    ELSE LET ts == IF e.UpdatedAt = ZeroTime \/ e.CreatedAt > e.UpdatedAt
                   THEN e.CreatedAt ELSE e.UpdatedAt
         IN IF ts = ZeroTime THEN FALSE ELSE ts < cutoff

\* cutoff := time.Now().Add(-s.entryTTL)
isExpired(e) ==
    IF srv.entryTTL <= 0 THEN FALSE ELSE entryExpiredAt(e, now - srv.entryTTL)

\* a step of the server that calls no store method
NoStoreCall ==
    /\ ret' = Call("-", 0, "")
    /\ UNCHANGED <<storeVars, now, created, deleted>>

\* the handler writes its response and returns
Respond(status, body) ==
    /\ resp' = [handler |-> req.handler, id |-> req.id, status |-> status,
                body |-> body]
    /\ req' = NoRequest
\* the handler goes on to its next store call
Goto(pc) ==
    /\ req' = [req EXCEPT !.pc = pc]
    /\ resp' = NoResponse

\* expireIfNeeded(e): an expired entry is deleted, the error of the delete is
\* dropped; the result is isExpired(e)
expireIfNeededKeep(e) == NoStoreCall
expireIfNeeded(e) ==
    IF isExpired(e) THEN DeleteEntry(e.ID) ELSE NoStoreCall

\* "e, err := s.store.GetEntry(ctx, id)" with the 404 of its error branch
fetch(next) ==
    /\ GetEntry(req.id)
    /\ IF ret'.err # ""
       THEN Respond(404, <<>>)
       ELSE /\ req' = [req EXCEPT !.e = ret'.e, !.pc = next]
            /\ resp' = NoResponse
\* "if s.expireIfNeeded(ctx, e) { 404 }", then the rest of the handler
unlessExpired(rest) ==
    /\ expireIfNeeded(req.e)
    /\ IF isExpired(req.e) THEN Respond(404, <<>>) ELSE rest

\* ------------------------------------------------ handlers (server.go)
\* "vec, err := s.slm.Embed(...); if err != nil { http.Error(w, "embed error",
\* 500); return }": the branch of a failed Embed, which the mock provider never
\* takes and a provider that calls Ollama may. A successful Embed is part of
\* the step of the store call that takes its vector.
embedErrorSwallowed ==
    /\ srv.slm = "ollama"
    /\ ret' = Call("Embed", 0, "embed error")
    /\ UNCHANGED <<storeVars, now, created, deleted>>
    /\ Respond(204, <<>>)
embedError ==
    /\ srv.slm = "ollama"
    /\ ret' = Call("Embed", 0, "embed error")
    /\ UNCHANGED <<storeVars, now, created, deleted>>
    /\ Respond(500, <<>>)

\* a request arrives; PATCH without a metadata object is answered 400 at once
Receive(r) ==
    /\ req = NoRequest
    /\ NoStoreCall
    /\ IF r.handler = "PATCH /entries/{id}/metadata" /\ r.md.isNil
       THEN /\ resp' = [handler |-> r.handler, id |-> r.id, status |-> 400,
                        body |-> <<>>]
            /\ req' = req
       ELSE /\ req' = r
            /\ resp' = NoResponse

\* POST /entries
handleEntriesPost ==
    /\ req.handler = "POST /entries"
    /\ \/ embedError
       \/ /\ CreateEntryWithVector(req.body, Embedding(req.body))
          /\ IF ret'.err # "" THEN Respond(500, <<>>)
             ELSE Respond(201, <<entries'[ret'.id]>>)

\* GET /entries: the matching entries, less those that expireIfNeeded drops
handleEntriesGet ==
    /\ req.handler = "GET /entries"
    /\ \/ /\ req.pc = "find"
          /\ FindEntriesByMetadata(req.filters)
          /\ req' = [req EXCEPT !.todo = ret'.found, !.pc = "each"]
          /\ resp' = NoResponse
       \/ /\ req.pc = "each"
          /\ req.todo # <<>>
          /\ expireIfNeeded(Head(req.todo))
          /\ req' = [req EXCEPT
                        !.todo = Tail(@),
                        !.out = IF isExpired(Head(req.todo)) THEN @
                                ELSE Append(@, Head(req.todo))]
          /\ resp' = NoResponse
       \/ /\ req.pc = "each"
          /\ req.todo = <<>>
          /\ NoStoreCall
          /\ Respond(200, req.out)

\* GET, PUT and DELETE /entries/{id}
handleEntryByID ==
    \/ /\ req.handler \in {"GET /entries/{id}", "PUT /entries/{id}"}
       /\ req.pc = "get"
       /\ fetch("expire")
    \/ /\ req.handler = "GET /entries/{id}"
       /\ req.pc = "expire"
       /\ unlessExpired(Respond(200, <<req.e>>))
    \/ /\ req.handler = "PUT /entries/{id}"
       /\ req.pc = "expire"
       /\ unlessExpired(Goto("update"))
    \/ /\ req.handler = "PUT /entries/{id}"
       /\ req.pc = "update"
       /\ \/ embedError
          \/ /\ UpdateEntryWithVector(req.id, req.body, Embedding(req.body))
             /\ Respond(IF ret'.err # "" THEN 500 ELSE 204, <<>>)
    \/ /\ req.handler = "DELETE /entries/{id}"
       /\ DeleteEntry(req.id)
       /\ Respond(IF ret'.err # "" THEN 404 ELSE 204, <<>>)

\* GET, PATCH and DELETE /entries/{id}/metadata
handleEntryMetadata ==
    /\ req.handler \in {"GET /entries/{id}/metadata",
                         "PATCH /entries/{id}/metadata",
                         "DELETE /entries/{id}/metadata"}
    /\ \/ /\ req.pc = "get"
          /\ fetch("expire")
       \/ /\ req.pc = "expire"
          /\ unlessExpired(
                IF req.handler = "GET /entries/{id}/metadata"
                THEN Respond(200, <<req.e>>)
                ELSE Goto("write"))
       \/ /\ req.pc = "write"
          /\ req.handler = "PATCH /entries/{id}/metadata"
          /\ UpdateEntryMetadata(req.id, req.md, req.replace)
          /\ IF ret'.err # "" THEN Respond(404, <<>>) ELSE Goto("reget")
       \/ /\ req.pc = "reget"
          /\ fetch("reexpire")
       \/ /\ req.pc = "reexpire"
          /\ unlessExpired(Respond(200, <<req.e>>))
       \/ /\ req.pc = "write"
          /\ req.handler = "DELETE /entries/{id}/metadata"
          /\ DeleteEntryMetadata(req.id, req.keys)
          /\ Respond(IF ret'.err # "" THEN 404 ELSE 204, <<>>)

\* toString(v): a string as it is, anything else as fmt.Sprint gives it; the
\* metadata values of the model are no strings
toString(v) == Sprint(heap, v)

\* the filter of /search: an empty expected value asks for the key only
matchesFilters(entry, filters) ==
    IF Cardinality(DOMAIN filters.kv) = 0 THEN TRUE
    ELSE IF entry.isNil \/ entry.Metadata.isNil THEN FALSE
    ELSE \A key \in DOMAIN filters.kv :
            /\ key \in DOMAIN entry.Metadata.kv
            /\ \/ filters.kv[key] = ""
               \/ toString(entry.Metadata.kv[key]) = filters.kv[key]

\* the similarity below which a hit is dropped (0.2), in hundredths
MinScore == 20

\* strings.Fields of a lower-case string without blanks
Fields(s) == IF s = "" THEN <<>> ELSE <<s>>
\* strings.Contains on the prompts and queries that occur
Contains(s, sub) ==
    \/ sub = s
    \/ sub = ""
    \/ s \in {"p1", "p2"} /\ sub = "p"

\* every token of the query is part of some token of the prompt
tokensMatch(prompt, q) ==
    LET qTokens == Fields(q)
        etoks == Fields(prompt)
        match == Cardinality({ i \in 1..Len(qTokens) :
                     \E j \in 1..Len(etoks) : Contains(etoks[j], qTokens[i]) })
    IN match = Len(qTokens)

\* "for _, f := range fallback": append what is not in out yet and passes the
\* filters
RECURSIVE appendFallback(_, _, _, _)
appendFallback(out, fallback, i, filters) ==
    IF i > Len(fallback) THEN out
    ELSE IF \E j \in 1..Len(out) : out[j].ID = fallback[i].ID
         THEN appendFallback(out, fallback, i + 1, filters)
         ELSE IF matchesFilters(fallback[i], filters)
              THEN appendFallback(Append(out, fallback[i]), fallback, i + 1, filters)
              ELSE appendFallback(out, fallback, i + 1, filters)

\* the filters of GET /search and of GET /entries on the stored entry id:
\* matchesFilters in handleSearch, matchesMetadata in FindEntriesByMetadata
applyFilters(id, filters) ==
    /\ id \in DOMAIN entries
    /\ ret' = [Call("filters", id, "")
                  EXCEPT !.filters = filters,
                         !.search = matchesFilters(cloneEntry(entries[id]), filters),
                         !.list = matchesMetadata(entries[id], filters)]
    /\ UNCHANGED <<storeVars, now, created, deleted>>

\* GET /search
handleSearch ==
    /\ req.handler = "GET /search"
    /\ \/ /\ req.pc = "search"
          /\ embedError
       \/ /\ req.pc = "search"
          /\ SearchByVector(Embedding([Prompt |-> req.q]), req.limit)
          /\ req' = [req EXCEPT
                        !.todo = [i \in 1..Len(ret'.ids) |->
                                    [id |-> ret'.ids[i], score |-> ret'.scores[i]]],
                        !.hits = [i \in 1..Len(ret'.ids) |->
                                    [id |-> ret'.ids[i], score |-> ret'.scores[i]]],
                        !.pc = "hit"]
          /\ resp' = NoResponse
       \/ /\ req.pc = "hit"
          /\ req.todo # <<>>
          /\ Head(req.todo).score < MinScore
          /\ NoStoreCall
          /\ req' = [req EXCEPT !.todo = Tail(@)]
          /\ resp' = NoResponse
       \/ /\ req.pc = "hit"
          /\ req.todo # <<>>
          /\ Head(req.todo).score >= MinScore
          /\ GetEntry(Head(req.todo).id)
          /\ req' = IF ret'.err # "" THEN [req EXCEPT !.todo = Tail(@)]
                    ELSE [req EXCEPT !.todo = Tail(@), !.e = ret'.e,
                                     !.pc = "hitexpire"]
          /\ resp' = NoResponse
       \/ /\ req.pc = "hitexpire"
          /\ expireIfNeeded(req.e)
          /\ req' = [req EXCEPT
                        !.out = IF ~isExpired(req.e) /\ matchesFilters(req.e, req.filters)
                                THEN Append(@, req.e) ELSE @,
                        !.pc = "hit"]
          /\ resp' = NoResponse
       \/ /\ req.pc = "hit"
          /\ req.todo = <<>>
          /\ AllIDs
          /\ req' = [req EXCEPT !.todo = ret'.ids, !.pc = "fb"]
          /\ resp' = NoResponse
       \/ /\ req.pc = "fb"
          /\ req.todo # <<>>
          /\ GetEntry(Head(req.todo))
          /\ req' = IF ret'.err # "" THEN [req EXCEPT !.todo = Tail(@)]
                    ELSE [req EXCEPT !.todo = Tail(@), !.e = ret'.e,
                                     !.pc = "fbexpire"]
          /\ resp' = NoResponse
       \/ /\ req.pc = "fbexpire"
          /\ expireIfNeeded(req.e)
          /\ req' = [req EXCEPT
                        !.fallback = IF ~isExpired(req.e)
                                        /\ tokensMatch(req.e.Prompt, req.q)
                                     THEN Append(@, req.e) ELSE @,
                        !.pc = "fb"]
          /\ resp' = NoResponse
       \/ /\ req.pc = "fb"
          /\ req.todo = <<>>
          /\ NoStoreCall
          /\ Respond(200, appendFallback(req.out, req.fallback, 1, req.filters))

\* ------------------------------------------------ the janitor (server.go)
\* purgeExpired: one cutoff, a snapshot of the ids, then GetEntry and, for an
\* expired entry, DeleteEntry of each
purgeExpiredFirstOnly ==
    \/ /\ ~sweep.on
       /\ srv.entryTTL > 0
       /\ AllIDs
       /\ sweep' = [NoSweep EXCEPT !.on = TRUE, !.pc = "get", !.todo = ret'.ids,
                                   !.cutoff = now - srv.entryTTL]
    \/ /\ sweep.on
       /\ sweep.pc = "get"
       /\ sweep.todo # <<>>
       /\ GetEntry(Head(sweep.todo))
       /\ sweep' = IF ret'.err = "" /\ entryExpiredAt(ret'.e, sweep.cutoff)
                   THEN [sweep EXCEPT !.pc = "delete"]
                   ELSE [sweep EXCEPT !.todo = Tail(@)]
    \/ /\ sweep.on
       /\ sweep.pc = "delete"
       /\ DeleteEntry(Head(sweep.todo))
       /\ sweep' = [sweep EXCEPT !.todo = <<>>, !.pc = "get",
                                 !.removed = @ + 1,
                                 !.gone = IF ret'.err = "" THEN @ + 1 ELSE @]
    \/ /\ sweep.on
       /\ sweep.pc = "get"
       /\ sweep.todo = <<>>
       /\ ret' = [Call("purgeExpired", 0, "") EXCEPT !.n = sweep.removed]
       /\ UNCHANGED <<storeVars, now, created, deleted>>
       /\ sweep' = NoSweep
\* a variant that gives up at the first store call that fails
purgeExpiredAborting ==
    \/ /\ ~sweep.on
       /\ srv.entryTTL > 0
       /\ AllIDs
       /\ sweep' = [NoSweep EXCEPT !.on = TRUE, !.pc = "get", !.todo = ret'.ids,
                                   !.cutoff = now - srv.entryTTL]
    \/ /\ sweep.on
       /\ sweep.pc = "get"
       /\ sweep.todo # <<>>
       /\ GetEntry(Head(sweep.todo))
       /\ sweep' = IF ret'.err # "" THEN [sweep EXCEPT !.todo = <<>>]
                   ELSE IF entryExpiredAt(ret'.e, sweep.cutoff)
                   THEN [sweep EXCEPT !.pc = "delete"]
                   ELSE [sweep EXCEPT !.todo = Tail(@)]
    \/ /\ sweep.on
       /\ sweep.pc = "delete"
       /\ DeleteEntry(Head(sweep.todo))
       /\ sweep' = [sweep EXCEPT !.todo = IF ret'.err # "" THEN <<>> ELSE Tail(@),
                                 !.pc = "get",
                                 !.removed = @ + 1,
                                 !.gone = IF ret'.err = "" THEN @ + 1 ELSE @]
    \/ /\ sweep.on
       /\ sweep.pc = "get"
       /\ sweep.todo = <<>>
       /\ ret' = [Call("purgeExpired", 0, "") EXCEPT !.n = sweep.removed]
       /\ UNCHANGED <<storeVars, now, created, deleted>>
       /\ sweep' = NoSweep
purgeExpired ==
    \/ /\ ~sweep.on
       /\ srv.entryTTL > 0
       /\ AllIDs
       /\ sweep' = [NoSweep EXCEPT !.on = TRUE, !.pc = "get", !.todo = ret'.ids,
                                   !.cutoff = now - srv.entryTTL]
    \/ /\ sweep.on
       /\ sweep.pc = "get"
       /\ sweep.todo # <<>>
       /\ GetEntry(Head(sweep.todo))
       /\ sweep' = IF ret'.err = "" /\ entryExpiredAt(ret'.e, sweep.cutoff)
                   THEN [sweep EXCEPT !.pc = "delete"]
                   ELSE [sweep EXCEPT !.todo = Tail(@)]
    \/ /\ sweep.on
       /\ sweep.pc = "delete"
       /\ DeleteEntry(Head(sweep.todo))
       /\ sweep' = [sweep EXCEPT !.todo = Tail(@), !.pc = "get",
                                 !.removed = @ + 1,
                                 !.gone = IF ret'.err = "" THEN @ + 1 ELSE @]
    \/ /\ sweep.on
       /\ sweep.pc = "get"
       /\ sweep.todo = <<>>
       /\ ret' = [Call("purgeExpired", 0, "") EXCEPT !.n = sweep.removed]
       /\ UNCHANGED <<storeVars, now, created, deleted>>
       /\ sweep' = NoSweep

\* ------------------------------------------------ the life of the janitor
\* a step of New, of the ticker, of the goroutine or of Close that leaves the
\* purge as it is and calls no store method
Aside == NoStoreCall /\ sweep' = sweep

\* startJanitor up to "go func()": nothing when expiry is off, else one purge
startJanitorNoPurge ==
    /\ srv.phase = "startup"
    /\ Aside
    /\ srv' = [srv EXCEPT !.phase = "spawn"]
startJanitor ==
    /\ srv.phase = "startup"
    /\ IF srv.entryTTL <= 0
       THEN /\ Aside
            /\ srv' = [srv EXCEPT !.phase = "serving"]
       ELSE /\ purgeExpired
            /\ srv' = IF sweep.on /\ ~sweep'.on
                      THEN [srv EXCEPT !.phase = "spawn"]
                      ELSE srv
\* s.janitorWG.Add(1); time.NewTicker(interval); go func(); New returns
spawnJanitor ==
    /\ srv.phase = "spawn"
    /\ Aside
    /\ srv' = [srv EXCEPT !.phase = "serving", !.wg = @ + 1, !.janitor = "select"]

\* the ticker: the interval has passed; a tick is dropped while one waits
tickerFires ==
    /\ srv.janitor \in {"select", "sweeping"}
    /\ ~srv.tick
    /\ Aside
    /\ srv' = [srv EXCEPT !.tick = TRUE]

\* "case <-ticker.C:"
janitorTickIdle ==
    /\ srv.janitor = "select"
    /\ srv.tick
    /\ Aside
    /\ srv' = [srv EXCEPT !.tick = FALSE]
janitorTick ==
    /\ srv.janitor = "select"
    /\ srv.tick
    /\ Aside
    /\ srv' = [srv EXCEPT !.tick = FALSE, !.janitor = "sweeping"]
\* "s.purgeExpired(context.Background())" in the loop
janitorSweep ==
    /\ srv.janitor = "sweeping"
    /\ purgeExpired
    /\ srv' = IF sweep.on /\ ~sweep'.on
              THEN [srv EXCEPT !.janitor = "select"]
              ELSE srv
\* "case <-s.janitorStop:" ticker.Stop(), return, and the deferred Done
janitorExit ==
    /\ srv.janitor = "select"
    /\ srv.stop > 0
    /\ Aside
    /\ srv' = [srv EXCEPT !.janitor = "exited", !.wg = @ - 1, !.tick = FALSE]

\* s.janitorWG.Wait() may return
janitorWGWaitSkipped == TRUE
janitorWGWait == srv.wg = 0

\* s.closeOnce.Do(f) by closer c: the check of done, the mutex of the Once, f
\* when it has not run, and done set when f has returned
closeOnceDoAgain(c) ==
    \/ /\ srv.closers[c] = "once"
       /\ srv' = [srv EXCEPT !.closers[c] = "f"]
    \/ /\ srv.closers[c] = "lock"
       /\ srv' = [srv EXCEPT !.closers[c] = "f"]
closeOnceDo(c) ==
    \/ /\ srv.closers[c] = "once"
       /\ srv' = IF srv.once.done
                 THEN [srv EXCEPT !.closers[c] = "returned", !.closed = TRUE]
                 ELSE [srv EXCEPT !.closers[c] = "lock"]
    \/ /\ srv.closers[c] = "lock"
       /\ srv.once.m = 0
       /\ srv' = IF srv.once.done
                 THEN [srv EXCEPT !.closers[c] = "returned", !.closed = TRUE]
                 ELSE [srv EXCEPT !.closers[c] = "f", !.once.m = c]

\* Close by closer c, on a server that New has returned
Close(c) ==
    /\ Aside
    /\ \/ /\ srv.closers[c] \in {"idle", "returned"}
          /\ srv.phase = "serving"
          /\ srv' = [srv EXCEPT !.closers[c] = "once"]
       \/ closeOnceDo(c)
       \/ /\ srv.closers[c] = "f"     \* close of a closed channel panics
          /\ srv' = [srv EXCEPT !.stop = @ + 1,
                                !.closers[c] = IF srv.stop > 0 THEN "panic" ELSE "wait"]
       \/ /\ srv.closers[c] = "wait"
          /\ janitorWGWait
          /\ srv' = [srv EXCEPT !.once = [done |-> TRUE, m |-> 0],
                                !.closers[c] = "returned", !.closed = TRUE]

\* the clock of a server; a request is handled within one instant
Elapse ==
    /\ now < LastInstant
    /\ req = NoRequest
    /\ now' = now + 1
    /\ ret' = Call("Tick", 0, "")
    /\ UNCHANGED <<storeVars, created, deleted>>

\* the instant by which an entry with the latest created_at a body carries
\* (TTL + 2) has expired, and the clock of a server that runs until then
LiveInstant == 2 * srv.entryTTL + 3
ElapseLive ==
    /\ now < LiveInstant
    /\ now' = now + 1
    /\ ret' = Call("Tick", 0, "")
    /\ UNCHANGED <<storeVars, created, deleted>>

\* ------------------------------------------------ the clock
Tick ==
    /\ now < MaxTime
    /\ now' = now + 1
    /\ ret' = Call("Tick", 0, "")
    /\ UNCHANGED <<storeVars, created, deleted>>

\* lastVec follows the call of this step
TrackVectors ==
    lastVec' =
        IF ret'.err = "" /\ ret'.op \in {"CreateEntryWithVector", "UpdateEntryWithVector"}
        THEN MapPut(lastVec, ret'.id, ret'.vec)
        ELSE IF ret'.err = "" /\ ret'.op = "DeleteEntry"
        THEN MapDelete(lastVec, ret'.id)
        ELSE lastVec

\* a step of a caller that uses the store directly: no server, no janitor, and
\* nothing nested in the metadata
Direct == TrackVectors /\ UNCHANGED <<ollama, heap, req, resp, sweep, lifeVars>>

\* calls on a store of up to MaxID plain entries
Next ==
    \/ Tick /\ Direct
    \/ \E e \in PlainArgs \cup {NilEntry} :
          nextID <= MaxID /\ CreateEntryWithVector(e, Embedding(e)) /\ Direct
    \/ \E id \in PlainIDs, e \in PlainArgs \cup {NilEntry} :
          UpdateEntryWithVector(id, e, Embedding(e)) /\ Direct
    \/ \E id \in PlainIDs : GetEntry(id) /\ Direct
    \/ AllIDs /\ Direct
    \/ \E id \in PlainIDs : DeleteEntry(id) /\ Direct
    \/ \E id \in PlainIDs, md \in PlainPatch, replace \in BOOLEAN :
          UpdateEntryMetadata(id, md, replace) /\ Direct
    \/ \E id \in PlainIDs, keys \in PlainKeys :
          DeleteEntryMetadata(id, keys) /\ Direct

Spec == Init /\ [][Next]_vars

\* calls on a store of up to MaxEntryID entries with metadata and timestamps
NextEntry ==
    \/ Tick /\ Direct
    \/ \E e \in RichArgs \cup {NilEntry} :
          nextID <= MaxEntryID /\ CreateEntryWithVector(e, Embedding(e)) /\ Direct
    \/ \E id \in RichIDs, e \in RichArgs \cup {NilEntry} :
          UpdateEntryWithVector(id, e, Embedding(e)) /\ Direct
    \/ \E id \in RichIDs : GetEntry(id) /\ Direct
    \/ AllIDs /\ Direct
    \/ \E id \in RichIDs : DeleteEntry(id) /\ Direct
    \/ \E id \in RichIDs, md \in RichPatch, replace \in BOOLEAN :
          UpdateEntryMetadata(id, md, replace) /\ Direct
    \/ \E id \in RichIDs, keys \in RichKeys :
          DeleteEntryMetadata(id, keys) /\ Direct

SpecEntry == Init /\ [][NextEntry]_vars

\* calls on a store of up to MaxFindID entries that differ in their metadata
NextFind ==
    \/ \E e \in FindArgs :
          nextID <= MaxFindID /\ CreateEntryWithVector(e, Embedding(e)) /\ Direct
    \/ \E id \in FindIDs : DeleteEntry(id) /\ Direct
    \/ \E id \in FindIDs, keys \in FindKeys :
          DeleteEntryMetadata(id, keys) /\ Direct
    \/ \E filters \in FindFilters : FindEntriesByMetadata(filters) /\ Direct

SpecFind == Init /\ [][NextFind]_vars

\* calls on a store of up to MaxSearchID entries that differ in their vectors
NextSearch ==
    \/ \E e \in SearchArgs, vec \in SearchVecs :
          nextID <= MaxSearchID /\ CreateEntryWithVector(e, vec) /\ Direct
    \/ \E id \in SearchIDs, e \in SearchArgs, vec \in SearchVecs :
          UpdateEntryWithVector(id, e, vec) /\ Direct
    \/ \E id \in SearchIDs : DeleteEntry(id) /\ Direct
    \/ \E vec \in SearchQueries, limit \in SearchLimits :
          SearchByVector(vec, limit) /\ Direct

SpecSearch == Init /\ [][NextSearch]_vars

\* calls on a store that grows past the default limit; entries leave it oldest
\* first
NextLimit ==
    \/ \E e \in SearchArgs, vec \in LimitVecs :
          nextID <= MaxLimitID /\ CreateEntryWithVector(e, vec) /\ Direct
    \/ ids # <<>> /\ DeleteEntry(Head(ids)) /\ Direct
    \/ \E vec \in LimitVecs, limit \in LimitArgs :
          SearchByVector(vec, limit) /\ Direct

SpecLimit == Init /\ [][NextLimit]_vars

\* calls on a store whose metadata holds a nested object, by a caller that
\* goes on using the values it passed and the values it got
NextAlias ==
    \/ \E e \in AliasArgs :
          nextID <= MaxAliasID /\ CreateEntryWithVector(e, Embedding(e)) /\ Direct
    \/ \E id \in AliasIDs, e \in AliasArgs :
          UpdateEntryWithVector(id, e, Embedding(e)) /\ Direct
    \/ \E id \in AliasIDs : GetEntry(id) /\ Direct
    \/ \E id \in AliasIDs : DeleteEntry(id) /\ Direct
    \/ \E id \in AliasIDs, md \in AliasPatch, replace \in BOOLEAN :
          UpdateEntryMetadata(id, md, replace) /\ Direct
    \/ \E filters \in AliasFilters : FindEntriesByMetadata(filters) /\ Direct
    \/ \E r \in Refs, how \in {"MutateReturned", "MutatePassed"} :
          /\ MutateNested(r, how)
          /\ TrackVectors
          /\ UNCHANGED <<ollama, req, resp, sweep, lifeVars>>

SpecAlias == Init /\ [][NextAlias]_vars

\* a request as it arrives at its handler
Request(handler, pc, id) ==
    [NoRequest EXCEPT !.handler = handler, !.pc = pc, !.id = id]

ServerRequests ==
    { [Request("POST /entries", "create", 0) EXCEPT !.body = b] : b \in ServerBodies }
    \cup { [Request("GET /entries", "find", 0) EXCEPT !.filters = f] :
              f \in ServerFilters }
    \cup { Request(h, "get", id) :
              h \in {"GET /entries/{id}", "GET /entries/{id}/metadata"},
              id \in ServerIDs }
    \cup { [Request("PUT /entries/{id}", "get", id) EXCEPT !.body = b] :
              id \in ServerIDs, b \in ServerBodies }
    \cup { Request("DELETE /entries/{id}", "delete", id) : id \in ServerIDs }
    \cup { [Request("PATCH /entries/{id}/metadata", "get", id)
               EXCEPT !.md = md, !.replace = replace] :
              id \in ServerIDs, md \in ServerPatch \cup {NilMetadata},
              replace \in {FALSE} }
    \cup { [Request("DELETE /entries/{id}/metadata", "get", id) EXCEPT !.keys = keys] :
              id \in ServerIDs, keys \in { <<>> } }
    \cup { [Request("GET /search", "search", 0)
               EXCEPT !.q = q, !.filters = f, !.limit = 10] :
              q \in ServerQueries, f \in ServerFilters }

\* a step of a request handler, and a step of the janitor
Handling == TrackVectors /\ UNCHANGED <<ollama, heap, sweep, lifeVars>>
Sweeping == TrackVectors /\ resp' = NoResponse /\ UNCHANGED <<ollama, heap, req, lifeVars>>

\* an instant passes
Passing ==
    TrackVectors /\ resp' = NoResponse /\ UNCHANGED <<ollama, heap, req, sweep, lifeVars>>

\* a server over the store: one request at a time, the janitor and the clock
NextServer ==
    \/ Elapse /\ Passing
    \/ \E r \in ServerRequests :
          /\ r.handler = "POST /entries" => nextID <= MaxServerID
          /\ Receive(r)
          /\ Handling
    \/ handleEntriesPost /\ Handling
    \/ handleEntriesGet /\ Handling
    \/ handleEntryByID /\ Handling
    \/ handleEntryMetadata /\ Handling
    \/ handleSearch /\ Handling
    \/ purgeExpired /\ Sweeping

SpecServer == Init /\ [][NextServer]_vars

\* point reads and writes of up to MaxExpiryID entries as they age, with the
\* janitor
ExpiryRequests ==
    { r \in ServerRequests :
        /\ r.handler \in {"POST /entries", "GET /entries/{id}",
                           "PATCH /entries/{id}/metadata"}
        /\ r.id <= MaxExpiryID }

NextExpiry ==
    \/ Elapse /\ Passing
    \/ \E r \in ExpiryRequests :
          /\ r.handler = "POST /entries" => nextID <= MaxExpiryID
          /\ Receive(r)
          /\ Handling
    \/ handleEntriesPost /\ Handling
    \/ handleEntryByID /\ Handling
    \/ handleEntryMetadata /\ Handling
    \/ purgeExpired /\ Sweeping

SpecExpiry == Init /\ [][NextExpiry]_vars

\* a step of a purge: before keeps what the store held and what the clock
\* showed when the purge began
SweepingAlone ==
    /\ TrackVectors
    /\ resp' = NoResponse
    /\ before' = IF ~sweep.on THEN [ids |-> ids, entries |-> entries, now |-> now]
                  ELSE IF ~sweep'.on THEN NoBefore
                  ELSE before
    /\ UNCHANGED <<ollama, heap, req, srv, mu, calls, lin>>

\* up to MaxSweepID entries of different ages, and purges that run while no
\* other call does
NextSweep ==
    \/ Elapse /\ Passing
    \/ \E e \in ServerBodies :
          /\ ~sweep.on
          /\ nextID <= MaxSweepID
          /\ CreateEntryWithVector(e, Embedding(e))
          /\ Direct
    \/ purgeExpired /\ SweepingAlone

SpecSweep == Init /\ [][NextSweep]_vars

\* a step in the life of the janitor
Living == TrackVectors /\ resp' = NoResponse /\ UNCHANGED <<ollama, heap, req, before, mu, calls, lin>>

\* a server from New to Close over a store that a client fills
InitJanitor ==
    /\ entries = [i \in {} |-> NilEntry]
    /\ vectors = <<>>
    /\ ids = <<>>
    /\ nextID = 1
    /\ now = 1
    /\ ret = Call("New", 0, "")
    /\ created = <<>>
    /\ deleted = {}
    /\ lastVec = [i \in {} |-> <<>>]
    /\ heap = [r \in Refs |-> 1]
    /\ req = NoRequest
    /\ resp = NoResponse
    /\ sweep = NoSweep
    /\ srv = New("12h")
    /\ before = NoBefore
    /\ mu = Unlocked
    /\ calls = [g \in Goroutines |-> NoCall]
    /\ lin = [i \in {} |-> NilEntry]
    /\ ollama = NoOllama

NextJanitor ==
    \/ Elapse /\ Passing
    \/ \E e \in PlainArgs :
          /\ nextID <= MaxJanitorID
          /\ CreateEntryWithVector(e, Embedding(e))
          /\ Direct
    \/ startJanitor /\ Living
    \/ spawnJanitor /\ Living
    \/ tickerFires /\ Living
    \/ janitorTick /\ Living
    \/ janitorSweep /\ Living
    \/ janitorExit /\ Living
    \/ \E c \in Closers : Close(c) /\ Living

SpecJanitor == InitJanitor /\ [][NextJanitor]_vars

\* closer c is inside Close
InClose(c) == srv.closers[c] \in {"once", "lock", "f", "wait"}
\* the same server when every goroutine that can run does run: a call of Close
\* that has begun goes on, a purge that has begun goes on, and the select of
\* the loop, which picks at random among the ready cases, does not pass over
\* the closed janitorStop for ever
FairJanitor ==
    /\ SpecJanitor
    /\ \A c \in Closers : WF_vars(InClose(c) /\ Close(c) /\ Living)
    /\ WF_vars(janitorSweep /\ Living)
    /\ SF_vars(janitorExit /\ Living)

\* a server that is not closed, over a store that clients fill for a while and
\* never read
NextLive ==
    \/ ElapseLive /\ Passing
    \/ \E e \in ServerBodies :
          /\ now + srv.entryTTL < LiveInstant
          /\ nextID <= MaxLiveID
          /\ CreateEntryWithVector(e, Embedding(e))
          /\ Direct
    \/ startJanitor /\ Living
    \/ spawnJanitor /\ Living
    \/ tickerFires /\ Living
    \/ janitorTick /\ Living
    \/ janitorSweep /\ Living

SpecLive == InitJanitor /\ [][NextLive]_vars
\* time passes, the ticker keeps firing, and New and the goroutine are not
\* starved
FairLive ==
    /\ SpecLive
    /\ WF_vars(ElapseLive /\ Passing)
    /\ WF_vars(startJanitor /\ Living)
    /\ WF_vars(spawnJanitor /\ Living)
    /\ WF_vars(tickerFires /\ Living)
    /\ WF_vars(janitorTick /\ Living)
    /\ WF_vars(janitorSweep /\ Living)

\* the calls of the goroutines under SpecLock: writes and reads of id 1, and
\* reads of the whole store
LockCalls ==
    { [NoCall EXCEPT !.op = "CreateEntryWithVector", !.pc = "lock",
                     !.e = EntryArg("p1", "r1", NilMetadata, ZeroTime)],
      [NoCall EXCEPT !.op = "UpdateEntryWithVector", !.pc = "lock", !.id = 1,
                     !.e = EntryArg("p2", "r2", NilMetadata, ZeroTime)],
      [NoCall EXCEPT !.op = "UpdateEntryMetadata", !.pc = "lock", !.id = 1,
                     !.md = MakeMap([k \in {"a"} |-> 1])],
      [NoCall EXCEPT !.op = "UpdateEntryMetadata", !.pc = "lock", !.id = 1,
                     !.md = MakeMap([k \in {"b"} |-> 2])],
      [NoCall EXCEPT !.op = "DeleteEntryMetadata", !.pc = "lock", !.id = 1,
                     !.keys = <<"a">>],
      [NoCall EXCEPT !.op = "DeleteEntry", !.pc = "lock", !.id = 1],
      [NoCall EXCEPT !.op = "GetEntry", !.pc = "rlock", !.id = 1],
      [NoCall EXCEPT !.op = "AllIDs", !.pc = "rlock"],
      [NoCall EXCEPT !.op = "SearchByVector", !.pc = "rlock"],
      [NoCall EXCEPT !.op = "FindEntriesByMetadata", !.pc = "rlock"] }

\* a step of a goroutine inside the store
Locking ==
    /\ lastVec' = lastVec
    /\ UNCHANGED <<ollama, heap, req, resp, sweep, srv, before>>

\* the creates that have begun or are done
Creating ==
    Cardinality({ g \in Goroutines :
                    calls[g].op = "CreateEntryWithVector" /\ calls[g].pc \in {"lock", "first"} })

\* goroutines that call the store at the same time
NextLock ==
    \/ \E g \in Goroutines, c \in LockCalls :
          /\ c.op = "CreateEntryWithVector" => nextID + Creating <= MaxLockID
          /\ Enter(g, c)
          /\ Locking
    \/ \E g \in Goroutines : Lock(g) /\ Locking
    \/ \E g \in Goroutines : Statement(g) /\ Locking
    \/ \E g \in Goroutines : Unlock(g) /\ Locking

SpecLock == Init /\ [][NextLock]_vars

\* searches with a small limit, or none, over up to MaxCapID entries
CapRequests ==
    { [Request("POST /entries", "create", 0) EXCEPT !.body = b] : b \in ServerBodies }
    \cup { [Request("GET /search", "search", 0) EXCEPT !.q = q, !.limit = limit] :
              q \in {"", "p1"}, limit \in {0, 1} }

NextCap ==
    \/ \E r \in CapRequests :
          /\ r.handler = "POST /entries" => nextID <= MaxCapID
          /\ Receive(r)
          /\ Handling
    \/ handleEntriesPost /\ Handling
    \/ handleSearch /\ Handling

SpecCap == Init /\ [][NextCap]_vars

\* entries that differ in their metadata, and the filters a query string can
\* give: a filter value may be empty ("metadata.a=")
FilterArgs ==
    { EntryArg("p1", "r1", m, ZeroTime) :
        m \in { NilMetadata, MakeMap(EmptyMap),
                MakeMap([k \in {"a"} |-> 1]),
                MakeMap([k \in {"a", "b"} |-> IF k = "a" THEN 1 ELSE 2]) } }
FilterMaps ==
    { NilMetadata,
      MakeMap([k \in {"a"} |-> "1"]),
      MakeMap([k \in {"a"} |-> "2"]),
      MakeMap([k \in {"a"} |-> ""]),
      MakeMap([k \in {"b"} |-> ""]),
      MakeMap([k \in {"a", "b"} |-> IF k = "a" THEN "1" ELSE "2"]),
      MakeMap([k \in {"a", "b"} |-> IF k = "a" THEN "1" ELSE ""]) }

NextFilter ==
    \/ \E e \in FilterArgs :
          nextID <= MaxFilterID /\ CreateEntryWithVector(e, Embedding(e)) /\ Direct
    \/ \E id \in 1..MaxFilterID, filters \in FilterMaps :
          applyFilters(id, filters) /\ Direct

SpecFilter == Init /\ [][NextFilter]_vars

\* searches by query text, metadata filter and limit over up to MaxHitsID
\* entries with and without metadata
HitsBodies ==
    { EntryArg("p1", "r1", MakeMap([k \in {"a"} |-> 1]), ZeroTime),
      EntryArg("p2", "r2", NilMetadata, ZeroTime) }
HitsQueries == {"", "p", "p1", "zz"}
HitsFilters ==
    { NilMetadata, MakeMap([k \in {"a"} |-> "1"]), MakeMap([k \in {"a"} |-> ""]) }
HitsLimits == {1, 10}
HitsRequests ==
    { [Request("POST /entries", "create", 0) EXCEPT !.body = b] : b \in HitsBodies }
    \cup { [Request("GET /search", "search", 0)
               EXCEPT !.q = q, !.filters = f, !.limit = limit] :
              q \in HitsQueries, f \in HitsFilters, limit \in HitsLimits }

NextHits ==
    \/ \E r \in HitsRequests :
          /\ r.handler = "POST /entries" => nextID <= MaxHitsID
          /\ Receive(r)
          /\ Handling
    \/ handleEntriesPost /\ Handling
    \/ handleSearch /\ Handling

SpecHits == Init /\ [][NextHits]_vars

\* creates and deletes through the facade while entries age and the janitor
\* sweeps: a DELETE may take an id between two store calls of the purge
SwallowRequests ==
    { r \in ServerRequests : r.handler = "POST /entries" }
    \cup { Request("DELETE /entries/{id}", "delete", id) : id \in 1..MaxSwallowID }

NextSwallow ==
    \/ Elapse /\ Passing
    \/ \E r \in SwallowRequests :
          /\ r.handler = "POST /entries" => nextID <= MaxSwallowID
          /\ Receive(r)
          /\ Handling
    \/ handleEntriesPost /\ Handling
    \/ handleEntryByID /\ Handling
    \/ purgeExpired /\ SweepingAlone

SpecSwallow == Init /\ [][NextSwallow]_vars

\* creates, updates, metadata changes and deletes through the facade while entries age and the janitor
\* sweeps: a handler and the purge take turns between their store calls, and
\* the clock goes on between the store calls of a handler
RaceRequests ==
    { r \in ServerRequests :
        /\ r.handler \in {"POST /entries", "PUT /entries/{id}", "DELETE /entries/{id}",
                           "PATCH /entries/{id}/metadata"}
        /\ r.id <= MaxRaceID
        /\ r.body.CreatedAt = ZeroTime }

NextRace ==
    \/ ElapseLive /\ Passing
    \/ \E r \in RaceRequests :
          /\ r.handler = "POST /entries" => nextID <= MaxRaceID
          /\ Receive(r)
          /\ Handling
    \/ handleEntriesPost /\ Handling
    \/ handleEntryByID /\ Handling
    \/ handleEntryMetadata /\ Handling
    \/ purgeExpired /\ Sweeping

SpecRace == Init /\ [][NextRace]_vars

\* calls on a store some of whose vectors are empty, zero or of another
\* length than the query
DegVecs == { <<>>, <<0, 0>>, <<1, 0>>, <<1, 0, 0>> }
DegLimits == {1, MaxDegID}

NextDegenerate ==
    \/ \E e \in SearchArgs, vec \in DegVecs :
          nextID <= MaxDegID /\ CreateEntryWithVector(e, vec) /\ Direct
    \/ \E id \in 1..MaxDegID, e \in SearchArgs, vec \in DegVecs :
          UpdateEntryWithVector(id, e, vec) /\ Direct
    \/ \E vec \in DegVecs, limit \in DegLimits :
          SearchByVector(vec, limit) /\ Direct

SpecDegenerate == Init /\ [][NextDegenerate]_vars

\* ------------------------------------------------ ensureOllamaModel (slm.go)
\* const minOllamaEmbeddingsVersion
minOllamaEmbeddingsVersion == "0.1.25"
\* the versions an Ollama server reports, the tag lists it holds (the name of
\* each model), the endpoints that may fail and the models NewDefaultSLM asks
\* for (never the empty name: it puts nomic-embed-text in its place)
OllamaVersions ==
    {"", "0.1.9", "0.1.10", "0.1.24-rc1", "0.1.25", "0.1.30", "v0.2.0-rc1", "1.0"}
OllamaTags ==
    { {}, {"other-model"}, {"nomic-embed-text"},
      {"other-model", "nomic-embed-text:latest"} }
OllamaEndpoints == {"/api/version", "/api/tags", "/api/pull"}
OllamaModels == {"nomic-embed-text", "nomic-embed-text:latest"}

\* normalizeVersion: the text without a leading "v" and without what follows
\* the first blank or dash
normalizeVersion(raw) ==
    CASE raw = "v0.2.0-rc1" -> "0.2.0"
      [] raw = "0.1.24-rc1" -> "0.1.24"
      [] OTHER -> raw
\* split in compareSemver: the numbers between the dots, 0 for an empty part
split(v) ==
    LET n == normalizeVersion(v) IN
    CASE n = "" -> <<0>>
      [] n = "0.1.9" -> <<0, 1, 9>>
      [] n = "0.1.10" -> <<0, 1, 10>>
      [] n = "0.1.24" -> <<0, 1, 24>>
      [] n = "0.1.25" -> <<0, 1, 25>>
      [] n = "0.1.30" -> <<0, 1, 30>>
      [] n = "0.2.0" -> <<0, 2, 0>>
      [] n = "1.0" -> <<1, 0>>
\* "for len(av) < maxLen { av = append(av, 0) }"
pad(s, n) == [i \in 1..n |-> IF i <= Len(s) THEN s[i] ELSE 0]
\* the place of a numeral below 100 among numerals ordered as text
AsText(n) == IF n < 10 THEN n * 100 ELSE (n \div 10) * 100 + (n % 10) + 1
\* a variant that compares the parts as text
RECURSIVE compareLoopText(_, _, _)
compareLoopText(av, bv, i) ==
    IF i > Len(av) THEN 0
    ELSE IF AsText(av[i]) < AsText(bv[i]) THEN -1
    ELSE IF AsText(av[i]) > AsText(bv[i]) THEN 1
    ELSE compareLoopText(av, bv, i + 1)
\* "for i := 0; i < maxLen; i++"
RECURSIVE compareLoop(_, _, _)
compareLoop(av, bv, i) ==
    IF i > Len(av) THEN 0
    ELSE IF av[i] < bv[i] THEN -1
    ELSE IF av[i] > bv[i] THEN 1
    ELSE compareLoop(av, bv, i + 1)
compareSemverText(a, b) ==
    LET maxLen == IF Len(split(b)) > Len(split(a)) THEN Len(split(b)) ELSE Len(split(a))
    IN compareLoopText(pad(split(a), maxLen), pad(split(b), maxLen), 1)
compareSemver(a, b) ==
    LET maxLen == IF Len(split(b)) > Len(split(a)) THEN Len(split(b)) ELSE Len(split(a))
    IN compareLoop(pad(split(a), maxLen), pad(split(b), maxLen), 1)

\* strings.HasPrefix(have, prefix) on the names that occur
HasPrefix(have, prefix) ==
    have = "nomic-embed-text:latest" /\ prefix = "nomic-embed-text:"
modelMatches(have, want) ==
    IF have = "" \/ want = "" THEN FALSE
    ELSE IF have = want THEN TRUE
    ELSE HasPrefix(have, want \o ":")

\* the call sends a request to path and goes on, or returns err
Sends(path) == [ollama EXCEPT !.log = Append(@, path)]
Returning(o, err) == [o EXCEPT !.pc = "done", !.err = err]

\* ensureOllamaModel(baseURL, model) is called on a server of some version and
\* tag list, some of whose endpoints fail
ensureOllamaModel(version, tags, down, model) ==
    /\ ollama.pc \in {"idle", "done"}
    /\ ollama' =
          LET o == [version |-> version, tags |-> tags, down |-> down,
                    model |-> model, pc |-> "version", log |-> <<>>, err |-> ""]
          IN IF model = "" THEN Returning(o, "missing model name") ELSE o
\* ensureOllamaSupportsEmbeddings: fetchOllamaVersion, then the comparison
ensureOllamaSupportsEmbeddings ==
    /\ ollama.pc = "version"
    /\ ollama' =
          IF "/api/version" \in ollama.down \/ ollama.version = ""
          THEN Returning(Sends("/api/version"), "ollama version check failed")
          ELSE IF compareSemver(normalizeVersion(ollama.version),
                                minOllamaEmbeddingsVersion) < 0
          THEN Returning(Sends("/api/version"), "does not support embeddings")
          ELSE [Sends("/api/version") EXCEPT !.pc = "tags"]
\* ollamaModelExists, and the return of ensureOllamaModel when it does
ollamaModelExists ==
    /\ ollama.pc = "tags"
    /\ ollama' =
          IF "/api/tags" \in ollama.down
          THEN Returning(Sends("/api/tags"), "ollama tags status")
          ELSE IF \E have \in ollama.tags : modelMatches(have, ollama.model)
          THEN Returning(Sends("/api/tags"), "")
          ELSE [Sends("/api/tags") EXCEPT !.pc = "pull"]
\* pullOllamaModel
pullOllamaModel ==
    /\ ollama.pc = "pull"
    /\ ollama' =
          IF "/api/pull" \in ollama.down
          THEN Returning(Sends("/api/pull"), "ollama pull failed")
          ELSE Returning(Sends("/api/pull"), "")

\* a step of NewDefaultSLM, before there is a server or a store to call
Probing ==
    UNCHANGED <<entries, vectors, ids, nextID, now, ret, created, deleted, lastVec,
                heap, req, resp, sweep, srv, before, mu, calls, lin>>

NextOllama ==
    \/ \E version \in OllamaVersions, tags \in OllamaTags,
          down \in SUBSET OllamaEndpoints, model \in OllamaModels :
          ensureOllamaModel(version, tags, down, model) /\ Probing
    \/ ensureOllamaSupportsEmbeddings /\ Probing
    \/ ollamaModelExists /\ Probing
    \/ pullOllamaModel /\ Probing

SpecOllama == Init /\ [][NextOllama]_vars

\* a caller that keeps the slice its last AllIDs() returned while it goes on
\* calling the store; before.ids is what s.ids was during that call
Keeping ==
    /\ TrackVectors
    /\ IF ret'.op = "AllIDs"
       THEN /\ req' = [NoRequest EXCEPT !.todo = ret'.ids]
            /\ before' = [NoBefore EXCEPT !.ids = ids]
       ELSE UNCHANGED <<req, before>>
    /\ UNCHANGED <<ollama, heap, resp, sweep, srv, mu, calls, lin>>

NextIDs ==
    \/ \E e \in SearchArgs :
          nextID <= MaxSnapID /\ CreateEntryWithVector(e, Embedding(e)) /\ Keeping
    \/ \E id \in 1..MaxSnapID, e \in SearchArgs :
          UpdateEntryWithVector(id, e, Embedding(e)) /\ Keeping
    \/ \E id \in 1..MaxSnapID : DeleteEntry(id) /\ Keeping
    \/ AllIDs /\ Keeping

SpecIDs == Init /\ [][NextIDs]_vars

\* a server whose provider calls Ollama: creates, updates and searches through
\* the facade, and the store called beside it with vectors of the caller's own
EmbedRequests ==
    { r \in ServerRequests :
        /\ r.handler \in {"POST /entries", "PUT /entries/{id}", "GET /search"}
        /\ r.filters.isNil }
EmbedVecs == { <<3, 4>> }

InitEmbed ==
    /\ entries = [i \in {} |-> NilEntry]
    /\ vectors = <<>>
    /\ ids = <<>>
    /\ nextID = 1
    /\ now = 1
    /\ ret = Call("New", 0, "")
    /\ created = <<>>
    /\ deleted = {}
    /\ lastVec = [i \in {} |-> <<>>]
    /\ heap = [r \in Refs |-> 1]
    /\ req = NoRequest
    /\ resp = NoResponse
    /\ sweep = NoSweep
    /\ srv = [Running("12h") EXCEPT !.slm = "ollama"]
    /\ before = NoBefore
    /\ mu = Unlocked
    /\ calls = [g \in Goroutines |-> NoCall]
    /\ lin = [i \in {} |-> NilEntry]
    /\ ollama = NoOllama

NextEmbed ==
    \/ \E r \in EmbedRequests :
          /\ r.handler = "POST /entries" => nextID <= MaxEmbedID
          /\ Receive(r)
          /\ Handling
    \/ handleEntriesPost /\ Handling
    \/ handleEntryByID /\ Handling
    \/ handleSearch /\ Handling
    \/ \E e \in SearchArgs, vec \in EmbedVecs :
          /\ req = NoRequest
          /\ nextID <= MaxEmbedID
          /\ CreateEntryWithVector(e, vec)
          /\ Direct
    \/ \E id \in 1..MaxEmbedID, e \in SearchArgs, vec \in EmbedVecs :
          req = NoRequest /\ UpdateEntryWithVector(id, e, vec) /\ Direct
    \/ \E vec \in EmbedVecs :
          req = NoRequest /\ SearchByVector(vec, 1) /\ Direct

SpecEmbed == InitEmbed /\ [][NextEmbed]_vars

\* the same requests on servers started under each value of SLC_ENTRY_TTL
InitConfig ==
    /\ entries = [i \in {} |-> NilEntry]
    /\ vectors = <<>>
    /\ ids = <<>>
    /\ nextID = 1
    /\ now = 1
    /\ ret = Call("New", 0, "")
    /\ created = <<>>
    /\ deleted = {}
    /\ lastVec = [i \in {} |-> <<>>]
    /\ heap = [r \in Refs |-> 1]
    /\ req = NoRequest
    /\ resp = NoResponse
    /\ sweep = NoSweep
    /\ \E v \in EnvTTLs : srv = Running(v)
    /\ before = NoBefore
    /\ mu = Unlocked
    /\ calls = [g \in Goroutines |-> NoCall]
    /\ lin = [i \in {} |-> NilEntry]
    /\ ollama = NoOllama

SpecConfig == InitConfig /\ [][NextExpiry]_vars

\* ================================================================ claims
Ok(op) == ret.op = op /\ ret.err = ""
PointOps ==
    {"GetEntry", "UpdateEntryWithVector", "DeleteEntry", "UpdateEntryMetadata",
     "DeleteEntryMetadata"}

\* C1: in every reachable state the ids keyed in the entry table are exactly
\* the ids of the id list, the id list has no duplicate, and the id list and
\* the vector list have the same length.
C1_TableAndIndexAgree ==
    /\ DOMAIN entries = Range(ids)
    /\ \A i, j \in 1..Len(ids) : ids[i] = ids[j] => i = j
    /\ Len(ids) = Len(vectors)
\* a delete has removed one entry from a store that still holds another
C1_Witness ==
    /\ Ok("DeleteEntry")
    /\ Len(ids) = 1
    /\ Len(vectors) = 1

C3_DeleteIsTerminal ==
    /\ \A id \in deleted : id \notin DOMAIN entries /\ id \notin Range(ids)
    /\ (ret.op = "GetEntry" /\ ret.id \in deleted) => ret.err = "not found"
    /\ ret.op = "AllIDs" => Range(ret.ids) \cap deleted = {}
\* a GetEntry of a deleted id while a later entry is stored
C3_Witness ==
    /\ ret.op = "GetEntry"
    /\ ret.id \in deleted
    /\ ret.err = "not found"
    /\ entries # [i \in {} |-> NilEntry]

\* C4: GetEntry, UpdateEntryWithVector, DeleteEntry, UpdateEntryMetadata and
\* DeleteEntryMetadata on an id that is not stored return not found and leave
\* the entry table, the id list, the vector list and nextID unchanged.
C4_AbsentIdNotFound ==
    [][(ret'.op \in PointOps /\ ret'.id \notin DOMAIN entries)
          => (ret'.err = "not found" /\ storeVars' = storeVars)]_vars
\* a metadata patch of an absent id on a non-empty store
C4_Witness ==
    /\ ret.op = "UpdateEntryMetadata"
    /\ ret.err = "not found"
    /\ Len(ids) >= 1

\* C5: a create fails exactly when the entry argument is nil; a failed create
\* takes no id and changes nothing; a successful one stores under nextID.
C5_CreateFailsOnlyOnNil ==
    [][ret'.op = "CreateEntryWithVector"
          => /\ (ret'.err = "nil entry") <=> ret'.e.isNil
             /\ (ret'.err = "") <=> ~ret'.e.isNil
             /\ ret'.err # "" => storeVars' = storeVars
             /\ ret'.err = "" => /\ ret'.id = nextID
                                 /\ nextID' = nextID + 1
                                 /\ ret'.id \in DOMAIN entries']_vars
\* a nil create on a store that already holds an entry
C5_Witness ==
    /\ ret.op = "CreateEntryWithVector"
    /\ ret.err = "nil entry"
    /\ Len(ids) >= 1

\* the GetEntry of this step reads the id the create of the step before returned
GetRightAfterCreate ==
    /\ ret.op = "CreateEntryWithVector" /\ ret.err = ""
    /\ ret'.op = "GetEntry" /\ ret'.id = ret.id

C7_IdentityPreserved ==
    [][\A id \in DOMAIN entries \cap DOMAIN entries' :
          /\ entries'[id].ID = id
          /\ entries'[id].CreatedAt = entries[id].CreatedAt
          /\ entries'[id].UpdatedAt >= entries[id].UpdatedAt]_vars
\* an update whose incoming entry carries another CreatedAt than the stored one,
\* at a later instant than the entry's previous write
C7_Witness ==
    /\ Ok("UpdateEntryWithVector")
    /\ ret.e.CreatedAt # ZeroTime
    /\ ret.e.CreatedAt # entries[ret.id].CreatedAt
    /\ entries[ret.id].UpdatedAt > entries[ret.id].CreatedAt

\* C8: after UpdateEntryMetadata(id, patch, replace) on a stored id: with
\* replace the metadata is exactly patch (nil when patch is nil); without, it
\* has patch's keys with patch's values, the other previous keys with their
\* previous values, and no other key.
C8_MergeOrReplace ==
    [][(ret'.op = "UpdateEntryMetadata" /\ ret'.id \in DOMAIN entries)
          => LET old == entries[ret'.id].Metadata
                 new == entries'[ret'.id].Metadata
                 patch == ret'.md
             IN /\ ret'.err = ""
                /\ ret'.replace => new = patch
                /\ ~ret'.replace =>
                     /\ DOMAIN new.kv = DOMAIN old.kv \cup DOMAIN patch.kv
                     /\ \A k \in DOMAIN new.kv :
                          new.kv[k] = IF k \in DOMAIN patch.kv THEN patch.kv[k]
                                      ELSE old.kv[k]]_vars
\* a merge has overwritten the value of b and kept a
C8_Witness ==
    /\ Ok("UpdateEntryMetadata")
    /\ ~ret.replace
    /\ ret.md.kv = [k \in {"b"} |-> 2]
    /\ entries[ret.id].Metadata.kv = [k \in {"a", "b"} |-> IF k = "a" THEN 1 ELSE 2]

\* C9: after DeleteEntryMetadata(id, keys...) on a stored id: with no keys the
\* entry has nil metadata; with keys exactly the named keys are gone and every
\* other key keeps its value; a key that is not present is no error.
C9_DeleteKeys ==
    [][(ret'.op = "DeleteEntryMetadata" /\ ret'.id \in DOMAIN entries)
          => LET old == entries[ret'.id].Metadata
                 new == entries'[ret'.id].Metadata
                 keys == ret'.keys
             IN /\ ret'.err = ""
                /\ Len(keys) = 0 => new = NilMetadata
                /\ Len(keys) > 0 =>
                     /\ DOMAIN new.kv = DOMAIN old.kv \ Range(keys)
                     /\ \A k \in DOMAIN new.kv : new.kv[k] = old.kv[k]]_vars
\* key a was named twice, so absent the second time, and key b is still there
C9_Witness ==
    /\ Ok("DeleteEntryMetadata")
    /\ ret.keys = <<"a", "a">>
    /\ DOMAIN entries[ret.id].Metadata.kv = {"b"}

\* C10: a successful UpdateEntryMetadata or DeleteEntryMetadata changes only
\* the metadata and updatedAt of its entry: the entry's other fields, the id
\* list, the vector list, nextID and every other entry stay as they were.
C10_MetadataOpsFrame ==
    [][(ret'.op \in {"UpdateEntryMetadata", "DeleteEntryMetadata"} /\ ret'.err = "")
          => /\ ids' = ids
             /\ vectors' = vectors
             /\ nextID' = nextID
             /\ DOMAIN entries' = DOMAIN entries
             /\ \A j \in DOMAIN entries \ {ret'.id} : entries'[j] = entries[j]
             /\ entries'[ret'.id] =
                  [entries[ret'.id] EXCEPT
                      !.Metadata = entries'[ret'.id].Metadata,
                      !.UpdatedAt = entries'[ret'.id].UpdatedAt]]_vars
\* a metadata patch on one of two stored entries, at a later instant
C10_Witness ==
    /\ Ok("UpdateEntryMetadata")
    /\ Len(ids) = 2
    /\ entries[ret.id].UpdatedAt > entries[ret.id].CreatedAt
    /\ ~entries[ret.id].Metadata.isNil
\* an entry satisfies a filter map: each of its keys is in the entry's metadata
\* with a value that prints as the filter's string
Satisfies(e, filters) ==
    \A k \in DOMAIN filters.kv :
        /\ ~e.Metadata.isNil
        /\ k \in DOMAIN e.Metadata.kv
        /\ Sprint(heap, e.Metadata.kv[k]) = filters.kv[k]

\* C11: FindEntriesByMetadata(filters) returns exactly the stored entries that
\* have every filter key in their metadata with a value whose string rendering
\* equals the filter value, each once; with nil or empty filters it returns
\* every stored entry; an entry that lacks a filter key is left out.
C11_FindExactlyMatching ==
    ret.op = "FindEntriesByMetadata" =>
        /\ ret.err = ""
        /\ { ret.found[i].ID : i \in 1..Len(ret.found) }
             = { id \in DOMAIN entries : Satisfies(entries[id], ret.filters) }
        /\ \A i \in 1..Len(ret.found) : ret.found[i] = entries[ret.found[i].ID]
        /\ \A i, j \in 1..Len(ret.found) :
              ret.found[i].ID = ret.found[j].ID => i = j
        /\ DOMAIN ret.filters.kv = {} => Len(ret.found) = Cardinality(DOMAIN entries)
\* a lookup on a and b has returned one of two stored entries; the other has a
\* but lacks b
C11_Witness ==
    /\ ret.op = "FindEntriesByMetadata"
    /\ DOMAIN ret.filters.kv = {"a", "b"}
    /\ Len(ret.found) = 1
    /\ \E id \in DOMAIN entries :
          /\ id # ret.found[1].ID
          /\ DOMAIN entries[id].Metadata.kv = {"a"}
          /\ Sprint(heap, entries[id].Metadata.kv["a"]) = ret.filters.kv["a"]
\* the score of a stored id against the query of the last search
ScoreOf(id) == cosine(ret.vec, vectors[IndexOf(id)])

\* C12: a search with 0 < k <= n on n stored vectors returns k distinct stored
\* ids such that no id left out scores strictly higher than a returned one;
\* with k > n it returns all n ids.
C12_TopK ==
    (ret.op = "SearchByVector" /\ ret.limit > 0) =>
        LET returned == Range(ret.ids)
            n == Len(vectors)
        IN /\ returned \subseteq Range(ids)
           /\ ret.limit <= n =>
                 /\ Cardinality(returned) = ret.limit
                 /\ \A o \in Range(ids) \ returned, r \in returned :
                       ScoreOf(o) <= ScoreOf(r)
           /\ ret.limit > n => returned = Range(ids)
\* a search for two of three has left out the oldest entry, which scores lower
\* than both of the others
C12_Witness ==
    /\ ret.op = "SearchByVector"
    /\ ret.limit = 2
    /\ Len(ids) = 3
    /\ ids[1] \notin Range(ret.ids)
    /\ \A r \in Range(ret.ids) : ScoreOf(ids[1]) < ScoreOf(r)

\* C13: a search returns ids and scores of the same length; each ids[i] is
\* stored, none occurs twice, and scores[i] is the similarity of the query and
\* the vector that the last create or update of ids[i] passed.
C13_IdsAndScoresAligned ==
    ret.op = "SearchByVector" =>
        /\ Len(ret.ids) = Len(ret.scores)
        /\ \A i \in 1..Len(ret.ids) :
              /\ ret.ids[i] \in DOMAIN entries
              /\ ret.ids[i] \in DOMAIN lastVec
              /\ ret.scores[i] = cosine(ret.vec, lastVec[ret.ids[i]])
        /\ \A i, j \in 1..Len(ret.ids) : ret.ids[i] = ret.ids[j] => i = j
\* a search after the first id was deleted has returned the two ids that are
\* left, with different scores
C13_Witness ==
    /\ ret.op = "SearchByVector"
    /\ 1 \in deleted
    /\ Len(ret.ids) = 2
    /\ ret.scores[1] < ret.scores[2]
    /\ ret.scores[2] < Hundredths
\* C14: a search returns exactly min(k', n) ids and as many scores, where n is
\* the number of stored entries and k' is k when k > 0 and 10 otherwise.
C14_ResultCount ==
    ret.op = "SearchByVector" =>
        LET n == Cardinality(DOMAIN entries)
            k == IF ret.limit > 0 THEN ret.limit ELSE 10
        IN /\ Len(ret.ids) = IF k < n THEN k ELSE n
           /\ Len(ret.scores) = Len(ret.ids)
\* a search with a non-positive limit on eleven entries has returned ten
C14_Witness ==
    /\ ret.op = "SearchByVector"
    /\ ret.limit <= 0
    /\ Cardinality(DOMAIN entries) > 10
    /\ Len(ret.ids) = 10
\* what GetEntry(id) hands out, read through to the objects nested in it
Shown(id) ==
    [entry |-> entries[id],
     nested |-> [r \in RefsIn(entries[id].Metadata) |-> heap[r]]]

\* C15: an entry returned by GetEntry or FindEntriesByMetadata is a copy: a
\* write of the caller into the returned value, also into a value nested in its
\* metadata, changes nothing of what a later GetEntry of a stored id returns.
C15_ReturnedIsCopy ==
    [][ret'.op = "MutateReturned"
          => \A id \in DOMAIN entries : Shown(id)' = Shown(id)]_vars
\* the caller has written into an object it got from GetEntry while an entry
\* that holds the same object is stored
C15_Witness ==
    /\ ret.op = "MutateReturned"
    /\ \E id \in DOMAIN entries : ret.id \in RefsIn(entries[id].Metadata)

\* C16: what is passed to CreateEntryWithVector, UpdateEntryWithVector and
\* UpdateEntryMetadata is stored by value: a write of the caller into the
\* entry, metadata, nested value or vector it passed changes nothing of what
\* is stored.
C16_PassedIsCopied ==
    [][ret'.op = "MutatePassed"
          => /\ \A id \in DOMAIN entries : Shown(id)' = Shown(id)
             /\ vectors' = vectors]_vars
\* the caller has written into an object it had passed in a metadata patch
\* while the patched entry is stored
C16_Witness ==
    /\ ret.op = "MutatePassed"
    /\ \E id \in DOMAIN entries : ret.id \in RefsIn(entries[id].Metadata)
\* the effective timestamp of an entry: updatedAt, or createdAt when updatedAt
\* is unset or createdAt is later
EffectiveTimestamp(e) ==
    IF e.UpdatedAt = ZeroTime \/ e.CreatedAt > e.UpdatedAt
    THEN e.CreatedAt ELSE e.UpdatedAt
\* the entry is expired at instant t
ExpiredAt(e, t) == EffectiveTimestamp(e) < t - TTL

\* C17: when GET /entries/{id} has fetched an entry whose effective timestamp
\* is older than now - TTL, it answers not found and, in that call, the entry
\* and its vector leave the store: the id is in neither the table nor the ids.
C17_LazyEviction ==
    [][(/\ req.handler = "GET /entries/{id}"
        /\ req.pc = "expire"
        /\ req' = NoRequest
        /\ TTL > 0
        /\ ExpiredAt(req.e, now))
          => /\ resp'.handler = "GET /entries/{id}"
             /\ resp'.status = 404
             /\ req.id \notin DOMAIN entries'
             /\ req.id \notin Range(ids')
             /\ Len(vectors') = Len(ids')
             /\ req.id \notin DOMAIN lastVec']_vars
\* GET /entries/{id} has answered 404 in the step in which it deleted the entry
C17_Witness ==
    /\ resp.handler = "GET /entries/{id}"
    /\ resp.status = 404
    /\ ret.op = "DeleteEntry"
    /\ ret.err = ""
    /\ ret.id = resp.id
    /\ now > TTL + 1

ReadHandlers ==
    {"GET /entries/{id}", "GET /entries/{id}/metadata", "GET /entries", "GET /search"}

\* C18: no 200 response of GET /entries/{id}, GET /entries/{id}/metadata,
\* GET /entries or GET /search shows an entry whose last write (its updatedAt)
\* is more than TTL before the instant of the response.
C18_NoExpiredInResponse ==
    (resp.handler \in ReadHandlers /\ resp.status = 200) =>
        \A i \in 1..Len(resp.body) : now - resp.body[i].UpdatedAt <= TTL
\* a search has answered with an entry
C18_Witness ==
    /\ resp.handler = "GET /search"
    /\ resp.status = 200
    /\ resp.body # <<>>

PointHandlers ==
    {"GET /entries/{id}", "PUT /entries/{id}", "DELETE /entries/{id}",
     "GET /entries/{id}/metadata", "PATCH /entries/{id}/metadata",
     "DELETE /entries/{id}/metadata"}

\* C19: while a point handler works on an id whose stored entry is expired, no
\* step changes that entry other than by removing it, and the handler answers
\* not found, as it does for an id that was never created.
C19_ExpiredIsNotFound ==
    [][(/\ req.handler \in PointHandlers
        /\ req.id \in DOMAIN entries
        /\ ExpiredAt(entries[req.id], now))
          => /\ \/ req.id \notin DOMAIN entries'
                \/ entries'[req.id] = entries[req.id]
             /\ req' = NoRequest => resp'.status = 404]_vars
\* DELETE /entries/{id} has answered for an id that a sweep had not reached
C19_Witness ==
    /\ resp.handler = "DELETE /entries/{id}"
    /\ resp.id \in deleted
    /\ now > TTL + 1

\* C20: the lazy path (expireIfNeeded) deletes exactly when the entry's
\* effective timestamp is before now - TTL; a sweep takes now - TTL as its
\* cutoff and deletes exactly when the effective timestamp is before it; so
\* for one entry, clock value and TTL both give the same verdict.
C20_SameExpiryRule ==
    [][/\ (req.pc \in {"expire", "reexpire"} /\ req'.pc # req.pc)
            => ((ret'.op = "DeleteEntry") <=> ExpiredAt(req.e, now))
       /\ (~sweep.on /\ sweep'.on) => sweep'.cutoff = now - TTL
       /\ (sweep.on /\ sweep.pc = "get" /\ sweep.todo # <<>> /\ sweep'.todo = sweep.todo
              /\ sweep'.pc # sweep.pc)
            => /\ Head(sweep.todo) \in DOMAIN entries
               /\ EffectiveTimestamp(entries[Head(sweep.todo)]) < sweep.cutoff
       /\ (sweep.on /\ sweep.pc = "get" /\ sweep.todo # <<>> /\ sweep'.todo # sweep.todo)
            => \/ Head(sweep.todo) \notin DOMAIN entries
               \/ ~(EffectiveTimestamp(entries[Head(sweep.todo)]) < sweep.cutoff)]_vars
\* the sweep is about to delete an entry that a point read would evict at
\* this instant
C20_Witness ==
    /\ sweep.on
    /\ sweep.pc = "delete"
    /\ sweep.cutoff = now - TTL
    /\ Head(sweep.todo) \in DOMAIN entries
    /\ isExpired(entries[Head(sweep.todo)])
\* C21: on a server started with SLC_ENTRY_TTL set to a duration of zero or
\* less, no stored entry is ever removed (the requests and the janitor of
\* SpecConfig remove an entry only because it has expired) and no read of a
\* stored id is answered not found.
C21_ZeroDisablesExpiry ==
    (ParseDuration(srv.env).ok /\ ParseDuration(srv.env).d <= 0)
        => /\ deleted = {}
           /\ Range(created) \subseteq DOMAIN entries
\* on a server started with SLC_ENTRY_TTL=0 the janitor has found an entry to
\* delete
C21_Witness ==
    /\ srv.env = "0"
    /\ sweep.on
    /\ sweep.pc = "delete"
\* the ids of s that were expired when the purge began
NotExpiredBefore(id) ==
    ~(EffectiveTimestamp(before.entries[id]) < before.now - TTL)

\* C22: when a purge that nothing overlapped ends, the id list is the id list
\* from before the purge without the ids of the entries whose effective
\* timestamp was older than now - TTL, in the same order; the table holds
\* exactly those entries, unchanged; and each id that is left still has its
\* own vector at its place.
C22_SweepRemovesExactlyExpired ==
    [][(sweep.on /\ ~sweep'.on)
          => /\ ids' = SelectSeq(before.ids, NotExpiredBefore)
             /\ DOMAIN entries' = Range(ids')
             /\ \A id \in DOMAIN entries' : entries'[id] = before.entries[id]
             /\ Len(vectors') = Len(ids')
             /\ \A i \in 1..Len(ids') : vectors'[i] = lastVec'[ids'[i]]]_vars
\* a purge has just ended; the first and the last of three entries have been
\* purged and the one between them is left
C22_Witness ==
    /\ ~sweep.on
    /\ ret.op = "purgeExpired"
    /\ ids = <<2>>
    /\ deleted = {1, 3}
\* a purge begins, a purge ends
SweepBegins == ~sweep.on /\ sweep'.on
SweepEnds == sweep.on /\ ~sweep'.on

\* C23: on a server with TTL > 0, until the startup purge has ended there is
\* no janitor goroutine and no tick; New goes on to start the loop only in the
\* step that ends that purge, so exactly one purge runs before the loop; and
\* once New has returned a purge begins only in the loop, after the loop has
\* taken a tick, one purge for each tick taken.
C23_StartupSweepThenTicks ==
    [][srv.entryTTL > 0 =>
        /\ srv.phase = "startup" => (srv.janitor = "none" /\ ~srv.tick)
        /\ (srv.phase = "startup" /\ srv'.phase # "startup")
              => (SweepEnds /\ srv'.phase = "spawn" /\ srv'.janitor = "none"
                  /\ ~srv'.tick)
        /\ (srv.phase = "startup" /\ SweepEnds) => srv'.phase = "spawn"
        /\ (srv.janitor = "none" /\ srv'.janitor # "none") => srv.phase = "spawn"
        /\ (SweepBegins /\ srv.phase # "startup") => srv.janitor = "sweeping"
        /\ (srv.janitor # "sweeping" /\ srv'.janitor = "sweeping")
              => (srv.tick /\ ~srv'.tick /\ ~sweep.on)
        /\ (srv.janitor = "sweeping" /\ SweepEnds) => srv'.janitor = "select"]_vars
\* the startup purge has removed an entry of the store the server was given,
\* and the loop has not begun
C23_Witness ==
    /\ srv.phase = "spawn"
    /\ srv.janitor = "none"
    /\ deleted # {}
JanitorGone == srv.janitor \in {"none", "exited"}

\* C24: once a call of Close has returned the janitor goroutine is gone, no
\* purge is in progress and no step calls AllIDs, GetEntry or DeleteEntry (the
\* clients of SpecJanitor only create); and the step in which a call of Close
\* returns for the first time finds no purge in flight.
C24_NoSweepAfterClose ==
    [][/\ srv.closed
            => /\ JanitorGone
               /\ ~sweep.on
               /\ sweep' = sweep
               /\ ret'.op \notin {"AllIDs", "GetEntry", "DeleteEntry"}
       /\ (~srv.closed /\ srv'.closed) => (JanitorGone /\ ~sweep.on)]_vars
\* Close has returned and an expired entry is left in the store
C24_Witness ==
    /\ srv.closed
    /\ srv.janitor = "exited"
    /\ \E id \in DOMAIN entries : ExpiredAt(entries[id], now)

\* C25: close(s.janitorStop) runs at most once, whoever calls Close and how
\* often; a closer that has returned from Close finds the janitor goroutine
\* gone; and every call of Close that has begun returns.
C25_CloseOnceAndReturns ==
    /\ [](srv.stop <= 1)
    /\ [](\A c \in Closers : srv.closers[c] = "returned" => JanitorGone)
    /\ \A c \in Closers : InClose(c) ~> (srv.closers[c] = "returned")
\* every closer has returned from Close, the stop signal was raised once and
\* the goroutine has left a loop it had been sweeping in
C25_Witness ==
    /\ \A c \in Closers : srv.closers[c] = "returned"
    /\ srv.stop = 1
    /\ srv.janitor = "exited"
    /\ srv.wg = 0
\* C26: on a server with TTL > 0 that is not closed and whose clients only
\* create, every entry that is in the store is removed from it later on; only
\* the janitor deletes.
C26_EventuallyPurged ==
    \A id \in 1..MaxLiveID :
        (srv.entryTTL > 0 /\ id \in DOMAIN entries) ~> (id \notin DOMAIN entries)
\* at the last instant the loop of the janitor has just deleted the last of
\* the entries that were created
C26_Witness ==
    /\ srv.janitor = "sweeping"
    /\ ret.op = "DeleteEntry"
    /\ ret.err = ""
    /\ created # <<>>
    /\ Range(created) \subseteq deleted
    /\ now = LiveInstant
\* goroutine g is between the lock and the unlock of a read, of a write
Reading(g) ==
    calls[g].pc \in {"first", "unlock"} /\ calls[g].op \in ReadOps
Writing(g) ==
    calls[g].pc \notin {"idle", "lock", "rlock"} /\ calls[g].op \notin ReadOps

\* C27: at most one goroutine is inside a write; while a goroutine is inside
\* GetEntry, AllIDs, SearchByVector or FindEntriesByMetadata none is inside a
\* write, the id list and the vector list have one length, the ids listed are
\* the ids of the table, and the table is the one the calls made so far
\* leave, each taken whole; and no read fails on a missing id.
C27_ReadsSeeWholeWrites ==
    /\ Cardinality({ g \in Goroutines : Writing(g) }) <= 1
    /\ (\E g \in Goroutines : Reading(g))
          => /\ \A h \in Goroutines : ~Writing(h)
             /\ Len(ids) = Len(vectors)
             /\ Range(ids) = DOMAIN entries
             /\ entries = lin
    /\ \A g \in Goroutines : calls[g].out.err # "panic"
\* a search has read a store that holds an entry while a delete of that entry
\* waits for the lock
C27_Witness ==
    \E g, h \in Goroutines :
        /\ calls[g].op = "SearchByVector"
        /\ calls[g].pc = "unlock"
        /\ calls[g].out.ids = <<1>>
        /\ calls[h].op = "DeleteEntry"
        /\ calls[h].pc = "lock"

\* C28: every UpdateEntryWithVector, UpdateEntryMetadata, DeleteEntryMetadata,
\* DeleteEntry and GetEntry on an id returns what it returns when the calls
\* run one after the other in the order in which they entered their locked
\* sections, and whenever no write is in progress the table is the one that
\* order leaves: no write is lost and a get returns a whole record.
C28_PointOpsLinearizable ==
    /\ \A g \in Goroutines :
          (calls[g].pc = "unlock" /\ calls[g].op \in PointWriteOps \cup {"GetEntry"})
              => calls[g].out = calls[g].want
    /\ (\A g \in Goroutines : ~Writing(g)) => entries = lin
\* a merge of key b is about to return while a merge of key a, begun before
\* it has ended, waits for the lock; the entry holds key b
C28_Witness ==
    \E g, h \in Goroutines :
        /\ calls[g].op = "UpdateEntryMetadata"
        /\ calls[g].pc = "unlock"
        /\ calls[g].out.err = ""
        /\ "b" \in DOMAIN calls[g].md.kv
        /\ calls[h].op = "UpdateEntryMetadata"
        /\ calls[h].pc = "lock"
        /\ "a" \in DOMAIN calls[h].md.kv
        /\ DOMAIN entries[1].Metadata.kv = {"b"}
\* the result cap of a search: the limit asked for, 10 when it is not positive
ResultCap(limit) == IF limit > 0 THEN limit ELSE 10

\* C29: the response of GET /search holds at most as many entries as the
\* limit of the request, 10 when that limit is not positive.
C29_SearchWithinCap ==
    [][(req.handler = "GET /search" /\ req' = NoRequest)
          => Len(resp'.body) <= ResultCap(req.limit)]_vars
\* a search has answered while the store held more entries than the limit
C29_Witness ==
    /\ resp.handler = "GET /search"
    /\ resp.status = 200
    /\ Len(ids) > 1

\* C30: for every stored entry and every filter map, the filter of GET
\* /search accepts the entry exactly when the filter of GET /entries does.
C30_SameFilters ==
    ret.op = "filters" => (ret.search <=> ret.list)
\* both filters have been applied to an entry with metadata under a filter
\* with an empty value
C30_Witness ==
    /\ ret.op = "filters"
    /\ \E k \in DOMAIN ret.filters.kv : ret.filters.kv[k] = ""
    /\ ~entries[ret.id].Metadata.isNil
\* the store calls that take a vector
VectorOps == {"CreateEntryWithVector", "UpdateEntryWithVector", "SearchByVector"}

\* C31: when Embed fails in the handler of a create, an update or a search,
\* that handler answers 500 in the same step and the table, the vectors, the
\* id list and the id counter stay as they were; Embed is called by handlers
\* only, and a store call under a failing provider never fails for it and
\* keeps the vector it was passed.
C31_EmbedFailureReported ==
    [][/\ (ret'.op = "Embed" /\ ret'.err # "") =>
               /\ req.handler \in {"POST /entries", "PUT /entries/{id}", "GET /search"}
               /\ resp'.handler = req.handler
               /\ resp'.status >= 400
               /\ UNCHANGED <<entries, vectors, ids, nextID, created>>
       /\ ret'.op \in VectorOps =>
               /\ ret'.err \in {"", "not found", "nil entry"}
               /\ (ret'.err = "" /\ ret'.op # "SearchByVector") =>
                      \E i \in 1..Len(ids') :
                          ids'[i] = ret'.id /\ vectors'[i] = ret'.vec]_vars
\* an update through the facade has failed in Embed on a stored entry
C31_Witness ==
    /\ ret.op = "Embed"
    /\ ret.err # ""
    /\ resp.handler = "PUT /entries/{id}"
    /\ resp.id \in DOMAIN entries
\* id is in the entry table
Stored(id) == id \in DOMAIN entries

Release(version) ==
    CASE version = "0.1.9" -> 109
      [] version = "0.1.10" -> 110
      [] version = "0.1.24-rc1" -> 124
      [] version = "0.1.25" -> 125
      [] version = "0.1.30" -> 130
      [] version = "v0.2.0-rc1" -> 200
      [] version = "1.0" -> 10000
      [] OTHER -> 0
\* the server has answered with a version, and that version is 0.1.25 or later
Supported ==
    /\ "/api/version" \notin ollama.down
    /\ ollama.version # ""
    /\ Release(ollama.version) >= 125
\* the server has answered with a tag list, and the list names the model
Listed ==
    /\ "/api/tags" \notin ollama.down
    /\ \E have \in ollama.tags :
          have \in {ollama.model, ollama.model \o ":latest"}
Pulled == \E i \in 1..Len(ollama.log) : ollama.log[i] = "/api/pull"

\* C33: the requests of ensureOllamaModel are a prefix of version, tags, pull;
\* when it has returned, it has sent a pull exactly when the server answered
\* with a version of at least 0.1.25 and with a tag list that does not name
\* the model; a server that answered with an older version got the version
\* request only, and the call failed.
C33_VersionTagsPull ==
    /\ \E n \in 0..3 :
          ollama.log = SubSeq(<<"/api/version", "/api/tags", "/api/pull">>, 1, n)
    /\ ollama.pc = "done" =>
          /\ Pulled <=> (Supported /\ "/api/tags" \notin ollama.down /\ ~Listed)
          /\ Listed => ~Pulled
          /\ ("/api/version" \notin ollama.down /\ ollama.version # "" /\ ~Supported)
                 => ollama.log = <<"/api/version">> /\ ollama.err # ""
\* a call has pulled a model from a server of version 0.1.30 that listed
\* another one, and returned nil
C33_Witness ==
    /\ ollama.pc = "done"
    /\ ollama.version = "0.1.30"
    /\ ollama.tags = {"other-model"}
    /\ Pulled
    /\ ollama.err = ""
\* a vector without a component that is not zero
ZeroMagnitude(a) == \A i \in 1..Len(a) : a[i] = 0
\* a pair of vectors for which the similarity is defined as 0
Degenerate(a, b) ==
    \/ Len(a) = 0
    \/ Len(b) = 0
    \/ Len(a) # Len(b)
    \/ ZeroMagnitude(a)
    \/ ZeroMagnitude(b)

\* C34: the score of a pair of vectors one of which is empty or of zero
\* magnitude, or which differ in length, is 0; a search over a store that
\* holds such vectors returns without an error, with as many ids as the limit
\* and the store allow, each with the score of its vector.
C34_DegenerateScoresZero ==
    /\ \A a, b \in DegVecs : Degenerate(a, b) => cosine(a, b) = 0
    /\ ret.op = "SearchByVector" =>
          /\ ret.err = ""
          /\ Len(ret.ids) = (IF ret.limit < Len(ids) THEN ret.limit ELSE Len(ids))
          /\ Len(ret.scores) = Len(ret.ids)
          /\ \A p \in 1..Len(ret.ids) :
                /\ ret.ids[p] \in Range(ids)
                /\ Degenerate(ret.vec, vectors[IndexOf(ret.ids[p])])
                       => ret.scores[p] = 0
\* a search has returned an entry whose vector is longer than the query and
\* an entry whose vector is zero
C34_Witness ==
    /\ ret.op = "SearchByVector"
    /\ ret.vec = <<1, 0>>
    /\ Len(ret.ids) = 2
    /\ \E i, j \in 1..Len(vectors) : vectors[i] = <<1, 0, 0>> /\ vectors[j] = <<0, 0>>
\* the step is the DeleteEntry of the purge, or that of an expireIfNeeded
SweepRemoves ==
    /\ sweep.on
    /\ sweep.pc = "delete"
    /\ sweep' # sweep
    /\ ret'.op = "DeleteEntry"
    /\ ret'.err = ""
LazyRemoves ==
    /\ req.handler \notin {"", "DELETE /entries/{id}"}
    /\ req' # req
    /\ ret'.op = "DeleteEntry"
    /\ ret'.err = ""

\* C35: when the purge or an expireIfNeeded removes an entry, the effective
\* timestamp the entry has in the store at that moment is before the cutoff
\* of that purge, or of that check.
C35_RemovedOnlyIfStale ==
    [][/\ SweepRemoves => EffectiveTimestamp(entries[ret'.id]) < sweep.cutoff
       /\ LazyRemoves => EffectiveTimestamp(entries[ret'.id]) < now - srv.entryTTL]_vars
\* the purge is about to delete an entry that an update has refreshed since
\* the purge read it
C35_Witness ==
    /\ sweep.on
    /\ sweep.pc = "delete"
    /\ Head(sweep.todo) \in DOMAIN entries
    /\ entries[Head(sweep.todo)].UpdatedAt >= sweep.cutoff
\* C36: the number purgeExpired returns is the number of entries that this
\* purge has taken from the store.
C36_CountIsRemoved ==
    [][(sweep.on /\ ~sweep'.on) =>
           /\ ret'.op = "purgeExpired"
           /\ ret'.n = sweep.gone]_vars
\* the DeleteEntry of a purge has answered not found: the id was deleted
\* after the purge had read its entry
C36_Witness ==
    /\ sweep.on
    /\ ret.op = "DeleteEntry"
    /\ ret.err = "not found"
    /\ sweep.removed = 1
    /\ resp = NoResponse
\* the store calls with which a handler changes a stored entry
ChangeOps == {"UpdateEntryWithVector", "UpdateEntryMetadata", "DeleteEntryMetadata"}

\* C37: when the store call of PUT /entries/{id} or of a metadata change
\* returns "not found", the handler answers 404 and not the 500 of an
\* internal error.
C37_AbsentIsNotFound ==
    [][(req.handler # "" /\ ret'.op \in ChangeOps /\ ret'.err = "not found")
          => resp'.status = 404]_vars
\* the store call of a PUT has returned "not found" for an id that the
\* handler had found before
C37_Witness ==
    /\ resp.handler = "PUT /entries/{id}"
    /\ ret.op = "UpdateEntryWithVector"
    /\ ret.err = "not found"
    /\ resp.id \in deleted
\* C38: while a purge runs, every id of its snapshot that it has passed is
\* out of the store or holds an entry that is not expired under the cutoff of
\* the purge, whatever its store calls for the ids before returned; so when
\* the purge ends, no expired entry of the snapshot is left.
C38_SweepGoesOn ==
    sweep.on =>
        \A i \in 1..Len(before.ids) :
            LET id == before.ids[i] IN
                \/ \E j \in 1..Len(sweep.todo) : sweep.todo[j] = id
                \/ id \notin DOMAIN entries
                \/ ~(EffectiveTimestamp(entries[id]) < sweep.cutoff)
\* the first DeleteEntry of a purge has failed, the id having been deleted
\* by a request, and the purge has gone on to remove the second id
C38_Witness ==
    /\ sweep.on
    /\ before.ids = <<1, 2>>
    /\ sweep.removed = 2
    /\ sweep.gone = 1
    /\ ret.op = "DeleteEntry"
    /\ ret.id = 2
    /\ ret.err = ""
\* a token of the query is part of a token of the prompt; each one is
SharesToken(prompt, q) ==
    \E i \in 1..Len(Fields(q)), j \in 1..Len(Fields(prompt)) :
        Contains(Fields(prompt)[j], Fields(q)[i])
HoldsEveryToken(prompt, q) ==
    \A i \in 1..Len(Fields(q)) :
        \E j \in 1..Len(Fields(prompt)) : Contains(Fields(prompt)[j], Fields(q)[i])
\* the search of this request returned id with a score of MinScore or more
VectorHit(id) ==
    \E i \in 1..Len(req.hits) : req.hits[i].id = id /\ req.hits[i].score >= MinScore
\* GET /search answers in this step
SearchAnswers == req.handler = "GET /search" /\ req' = NoRequest /\ resp'.status = 200

\* C39: every entry in the response of GET /search satisfies the filters of
\* the request and is a hit of the vector search with a score of at least the
\* minimum, or has a prompt that holds every token of the query; no id is in
\* the response twice; when no stored prompt shares a token with the query
\* and every stored vector scores below the minimum, the response is empty.
C39_SearchResponseSound ==
    [][SearchAnswers =>
         /\ \A p \in 1..Len(resp'.body) :
               /\ Satisfies(resp'.body[p], req.filters)
               /\ \/ VectorHit(resp'.body[p].ID)
                  \/ HoldsEveryToken(resp'.body[p].Prompt, req.q)
         /\ \A p, r \in 1..Len(resp'.body) :
               resp'.body[p].ID = resp'.body[r].ID => p = r
         /\ (/\ \A id \in DOMAIN entries : ~SharesToken(entries[id].Prompt, req.q)
             /\ \A i \in 1..Len(vectors) :
                   cosine(Embedding([Prompt |-> req.q]), vectors[i]) < MinScore)
               => resp'.body = <<>>]_vars
\* a search over two entries has answered with at least one of them
C39_Witness ==
    /\ resp.handler = "GET /search"
    /\ resp.status = 200
    /\ resp.body # <<>>
    /\ Len(ids) = 2

\* C40: a successful UpdateEntryWithVector leaves the id list, the id counter,
\* every other entry and every other vector as they were, and of its own
\* entry it keeps the id, createdAt and the metadata: prompt and response are
\* those passed, the vector at the place of the id is the one passed and
\* updatedAt is the instant of the call.
C40_UpdateFrame ==
    [][(ret'.op = "UpdateEntryWithVector" /\ ret'.err = "")
          => /\ ids' = ids
             /\ nextID' = nextID
             /\ DOMAIN entries' = DOMAIN entries
             /\ \A j \in DOMAIN entries \ {ret'.id} : entries'[j] = entries[j]
             /\ Len(vectors') = Len(vectors)
             /\ \A i \in 1..Len(vectors) :
                   vectors'[i] = IF ids[i] = ret'.id THEN ret'.vec ELSE vectors[i]
             /\ entries'[ret'.id] =
                  [entries[ret'.id] EXCEPT !.Prompt = ret'.e.Prompt,
                                           !.Response = ret'.e.Response,
                                           !.UpdatedAt = now]]_vars
\* an update passed an entry without metadata has left its entry without any
C40_Witness ==
    /\ Ok("UpdateEntryWithVector")
    /\ ret.e.Metadata.isNil
    /\ ret.id \in DOMAIN entries
    /\ entries[ret.id].Metadata.isNil
====
